---- MODULE Spec2Model ----
(***************************************************************************)
(* Model of the conversion core of bin_dec_converter.py.                   *)
(*                                                                         *)
(* A Python str is a sequence of one-character strings (for the character  *)
(* functions, the sequence of its code points), a Python int is an Int.    *)
(* Every core function is an operator that computes what the code          *)
(* computes, statement by statement, and yields an outcome record: either  *)
(* a return (with the value and, when show_steps is set, the list of       *)
(* steps) or a raise (with the exception class and its message).  One      *)
(* action per function calls it on inputs drawn from bounded sets and      *)
(* records the call and its outcome.                                       *)
(* The loops are also followed one iteration at a time (SpecLoop), and     *)
(* main() with the loop of menu() one statement group at a time, the       *)
(* user's lines drawn at every prompt (SpecMain).                          *)
(***************************************************************************)
EXTENDS Integers, Sequences, FiniteSets, TLC

(***************************************************************************)
(* Bounds of the model                                                     *)
(***************************************************************************)
MaxN == 260          \* integer arguments range over -MaxN..MaxN
MaxLen == 3          \* numeral strings have at most MaxLen characters
BaseSlack == 2       \* base arguments range over MIN_BASE-BaseSlack..MAX_BASE+BaseSlack
FracBits == 3        \* finite float arguments are multiples of 2^-FracBits
MaxFloatNum == 20    \* ... with numerators in -MaxFloatNum..MaxFloatNum
MaxPrecision == 3    \* precision arguments range over 0..MaxPrecision, and the default
MaxSniffLen == 3     \* strings given to detect_base have at most MaxSniffLen characters, four examples aside
MaxCharLen == 2      \* strs given to char_to_ascii have at most MaxCharLen characters
MaxLineLen == 2      \* lines typed at the prompts of the menu have at most MaxLineLen characters, the examples aside

(***************************************************************************)
(* Module constants                                                        *)
(***************************************************************************)
HEX_DIGITS == <<"0","1","2","3","4","5","6","7","8","9","A","B","C","D","E","F">>
BASE_DIGITS == <<"0","1","2","3","4","5","6","7","8","9","A","B","C","D","E","F">>
MAX_BASE == 16
MIN_BASE == 2

(***************************************************************************)
(* Python built-ins used by the code                                       *)
(***************************************************************************)
\* abs(n)
abs(n) == IF n < 0 THEN 0 - n ELSE n

\* the sequence as it is, not reversed
reversed_not(seq) == seq

\* reversed(seq)
reversed(seq) == [i \in 1..Len(seq) |-> seq[Len(seq) + 1 - i]]

\* seq.index(c): 0-based position of the first occurrence of c
index(seq, c) == (CHOOSE i \in 1..Len(seq) : seq[i] = c /\ \A j \in 1..(i-1) : seq[j] # c) - 1

\* str.upper() on one character: the ASCII lowercase letters of the model's
\* alphabet map to their capitals, every other character maps to itself
upper_char(c) ==
    CASE c = "a" -> "A" [] c = "b" -> "B" [] c = "c" -> "C" [] c = "d" -> "D"
      [] c = "e" -> "E" [] c = "f" -> "F" [] c = "g" -> "G" [] OTHER -> c

\* str.upper() that leaves every character as it is
upper_keep_case(s) == s

\* str.upper()
upper(s) == [i \in 1..Len(s) |-> upper_char(s[i])]

\* str.lower() on one character, for the ASCII capitals
lower_char(c) ==
    CASE c = "A" -> "a" [] c = "B" -> "b" [] c = "C" -> "c" [] c = "D" -> "d"
      [] c = "E" -> "e" [] c = "F" -> "f" [] c = "G" -> "g" [] c = "O" -> "o"
      [] c = "X" -> "x" [] c = "Z" -> "z" [] c = "Y" -> "y" [] c = "N" -> "n"
      [] OTHER -> c

\* str.lower() that leaves every character as it is
lower_keep_case(s) == s

\* str.lower()
lower(s) == [i \in 1..Len(s) |-> lower_char(s[i])]

\* the whitespace characters str.strip() removes, as far as the model's
\* alphabet has them
Whitespace == {" ", "\t", "\n", "\r"}

RECURSIVE lstrip(_)
lstrip(s) == IF s # <<>> /\ Head(s) \in Whitespace THEN lstrip(Tail(s)) ELSE s

RECURSIVE rstrip(_)
rstrip(s) ==
    IF s # <<>> /\ s[Len(s)] \in Whitespace THEN rstrip(SubSeq(s, 1, Len(s) - 1)) ELSE s

\* str.strip()
strip(s) == rstrip(lstrip(s))

\* s.startswith(prefix)
startswith(s, prefix) ==
    Len(s) >= Len(prefix) /\ SubSeq(s, 1, Len(prefix)) = prefix

\* s.startswith('-')
startswith_minus(s) == Len(s) >= 1 /\ s[1] = "-"

\* s[1:]
tail1(s) == IF Len(s) = 0 THEN <<>> ELSE SubSeq(s, 2, Len(s))

\* re.fullmatch("[<chars>]+", s): s is non-empty and made of chars only
fullmatch_class_plus(chars, s) ==
    Len(s) >= 1 /\ \A i \in 1..Len(s) : \E j \in 1..Len(chars) : chars[j] = s[i]

\* re.fullmatch("-?[<chars>]+", s): an optional '-', then one or more of chars
fullmatch_opt_minus_class_plus(chars, s) ==
    fullmatch_class_plus(chars, IF startswith_minus(s) THEN tail1(s) ELSE s)

\* a & m for nonnegative a and m, bit by bit
RECURSIVE BitAnd(_, _)
BitAnd(a, m) ==
    IF a = 0 \/ m = 0 THEN 0
    ELSE (IF a % 2 = 1 /\ m % 2 = 1 THEN 1 ELSE 0) + 2 * BitAnd(a \div 2, m \div 2)

\* a >> k for nonnegative a: k bits dropped on the right, one at a time
RECURSIVE ShiftRight(_, _)
ShiftRight(a, k) == IF k = 0 THEN a ELSE ShiftRight(a \div 2, k - 1)

\* 1 << k
RECURSIVE ShiftLeftOne(_)
ShiftLeftOne(k) == IF k = 0 THEN 1 ELSE 2 * ShiftLeftOne(k - 1)

\* int.bit_length(): the number of bits of |n|, 0 for n = 0
RECURSIVE bit_length(_)
bit_length(n) == IF n = 0 THEN 0 ELSE 1 + bit_length(abs(n) \div 2)

\* bin(n)[2:] and hex(n)[2:].upper() for n >= 0: the digits of n in base
\* 2 or 16, "0" for zero
RECURSIVE radix_digits(_, _)
radix_digits(n, radix) ==
    IF n < radix THEN <<HEX_DIGITS[n + 1]>>
    ELSE Append(radix_digits(n \div radix, radix), HEX_DIGITS[(n % radix) + 1])

\* len(char) of a str given by its code points
len(char) == Len(char)

\* ord(char) of a one-character str
ord(char) == char[1]

\* chr(i): the one-character str of code point i
chr(i) == <<i>>

\* str(d) for a single decimal digit d in 0..9
str_digit(d) == <<"0","1","2","3","4","5","6","7","8","9">>[d + 1]

(***************************************************************************)
(* Outcomes of a call and entries of a steps list                          *)
(***************************************************************************)
\* One entry of a steps list: the f-string of the source line (kind) with
\* the integers and the strings interpolated into it, in order.
Step(kind, ints, strs) == [kind |-> kind, ints |-> ints, strs |-> strs]

\* return of a str: the value alone, or the pair (value, steps) when tracing
ReturnStr(str, steps, show_steps) ==
    [kind |-> "return", exc |-> "", msg |-> "", margs |-> <<>>,
     numeral |-> str, value |-> 0, chars |-> <<>>, pair |-> show_steps,
     steps |-> IF show_steps THEN steps ELSE <<>>]

\* return of an int: the value alone, or the pair (value, steps) when tracing
ReturnInt(v, steps, show_steps) ==
    [kind |-> "return", exc |-> "", msg |-> "", margs |-> <<>>,
     numeral |-> <<>>, value |-> v, chars |-> <<>>, pair |-> show_steps,
     steps |-> IF show_steps THEN steps ELSE <<>>]

\* return of a str given by its code points (the character functions)
ReturnChars(char, steps, show_steps) ==
    [kind |-> "return", exc |-> "", msg |-> "", margs |-> <<>>,
     numeral |-> <<>>, value |-> 0, chars |-> char, pair |-> show_steps,
     steps |-> IF show_steps THEN steps ELSE <<>>]

\* an exception leaving the function: no value, no steps
Raise(exc, msg, margs) ==
    [kind |-> "raise", exc |-> exc, msg |-> msg, margs |-> margs,
     numeral |-> <<>>, value |-> 0, chars |-> <<>>, pair |-> FALSE, steps |-> <<>>]

\* "step_num += 1 if show_steps else 0" when step_num was never assigned
UnboundStepNum ==
    Raise("UnboundLocalError",
          "cannot access local variable 'step_num' where it is not associated with a value",
          <<>>)

\* "Base must be between {MIN_BASE} and {MAX_BASE}"
InvalidBase ==
    Raise("ValueError", "Base must be between {MIN_BASE} and {MAX_BASE}",
          <<MIN_BASE, MAX_BASE>>)

(***************************************************************************)
(* dec_to_base                                                             *)
(***************************************************************************)
\* The while loop of dec_to_base.  st holds the locals: working_n, digits,
\* steps, step_num and whether step_num has been assigned (bound); exc is
\* set when a statement of the body raises.
RECURSIVE dec_to_base_loop(_, _, _)
dec_to_base_loop(st, base, show_steps) ==
    IF st.working_n = 0 THEN st
    ELSE LET remainder == st.working_n % base
             digit == BASE_DIGITS[remainder + 1]
             steps1 == IF show_steps
                       THEN Append(st.steps,
                                   Step("{step_num:4} | {working_n:7} | {base:15} | {remainder:9} | {digit}",
                                        <<st.step_num, st.working_n, base, remainder>>, <<<<digit>>>>))
                       ELSE st.steps
             after == [st EXCEPT !.steps = steps1,
                                 !.digits = Append(st.digits, digit),
                                 !.working_n = st.working_n \div base]
         IN  IF ~st.bound
             THEN [after EXCEPT !.exc = "UnboundLocalError"]
             ELSE dec_to_base_loop(
                      [after EXCEPT !.step_num = st.step_num + (IF show_steps THEN 1 ELSE 0)],
                      base, show_steps)

dec_to_base(n, base, show_steps) ==
    IF n = 0
    THEN ReturnStr(<<"0">>,
                   <<Step("0 in decimal is 0 in base {base}", <<base>>, <<>>)>>,
                   show_steps)
    ELSE IF ~(MIN_BASE <= base /\ base <= MAX_BASE)
    THEN InvalidBase
    ELSE LET is_negative == n < 0
             steps0 == IF is_negative
                       THEN <<Step("Converting negative number: {original_n}", <<n>>, <<>>),
                              Step("Taking absolute value: {n}", <<abs(n)>>, <<>>)>>
                       ELSE <<>>
             working_n == abs(n)
             steps1 == IF show_steps
                       THEN steps0 \o
                            <<Step("Starting decimal to base {base} conversion of {working_n}:",
                                   <<base, working_n>>, <<>>),
                              Step("Step | Decimal | Divided by Base | Remainder | Digit", <<>>, <<>>),
                              Step("---- | ------- | --------------- | --------- | -----", <<>>, <<>>)>>
                       ELSE steps0
             loop == dec_to_base_loop([working_n |-> working_n, digits |-> <<>>,
                                       steps |-> steps1, step_num |-> 1,
                                       bound |-> show_steps, exc |-> ""],
                                      base, show_steps)
             result == reversed(loop.digits)
             final_result == IF is_negative THEN <<"-">> \o result ELSE result
             steps2 == loop.steps \o
                       <<Step("Reading remainders from bottom to top: {result}", <<>>, <<result>>)>> \o
                       (IF is_negative
                        THEN <<Step("Adding negative sign: {final_result}", <<>>, <<final_result>>)>>
                        ELSE <<>>) \o
                       <<Step("Final result: {original_n} in decimal = {final_result} in base {base}",
                              <<n, base>>, <<final_result>>)>>
         IN  IF loop.exc # "" THEN UnboundStepNum
             ELSE ReturnStr(final_result, steps2, show_steps)

(***************************************************************************)
(* base_to_dec                                                             *)
(***************************************************************************)
\* BASE_DIGITS[:base - 1]: the slice one digit short
valid_chars_short(base) == SubSeq(BASE_DIGITS, 1, base - 1)

\* BASE_DIGITS[:base]
valid_chars(base) == SubSeq(BASE_DIGITS, 1, base)

\* digit_value * (base ** (i + 1)): positions counted from 1
position_value_from_one(digit_value, base, i) == digit_value * (base ^ (i + 1))

\* digit_value * (base ** i)
position_value(digit_value, base, i) == digit_value * (base ^ i)

\* The for loop of base_to_dec over enumerate(reversed(number_str.upper())),
\* from 0-based position i on.  st holds decimal_value and steps.
RECURSIVE base_to_dec_loop(_, _, _, _, _)
base_to_dec_loop(rev, base, show_steps, i, st) ==
    IF i >= Len(rev) THEN st
    ELSE LET digit == rev[i + 1]
             digit_value == index(BASE_DIGITS, digit)
             pv == position_value(digit_value, base, i)
         IN  base_to_dec_loop(rev, base, show_steps, i + 1,
                 [decimal_value |-> st.decimal_value + pv,
                  steps |-> IF show_steps
                            THEN Append(st.steps,
                                        Step("{i:8} | {digit:5} | {digit_value:11} | {position_value:38}",
                                             <<i, digit_value, pv>>, <<<<digit>>>>))
                            ELSE st.steps])

base_to_dec(original_str, base, show_steps) ==
    IF ~(MIN_BASE <= base /\ base <= MAX_BASE)
    THEN InvalidBase
    ELSE LET is_negative == startswith_minus(original_str)
             number_str == IF is_negative THEN tail1(original_str) ELSE original_str
             steps0 == IF is_negative
                       THEN <<Step("Converting negative number: {original_str}", <<>>, <<original_str>>),
                              Step("Removing negative sign for conversion: {number_str}", <<>>, <<number_str>>)>>
                       ELSE <<>>
         IN  IF ~fullmatch_class_plus(valid_chars(base), upper(number_str))
             THEN Raise("ValueError", "Invalid number for base {base}", <<base>>)
             ELSE LET steps1 == IF show_steps
                                THEN steps0 \o
                                     <<Step("Starting base {base} to decimal conversion of {number_str}:",
                                            <<base>>, <<number_str>>),
                                       Step("Position | Digit | Digit Value | Value = Digit Value x {base}^Position",
                                            <<base>>, <<>>),
                                       Step("-------- | ----- | ----------- | -----------------------------------------",
                                            <<>>, <<>>)>>
                                ELSE steps0
                      loop == base_to_dec_loop(reversed(upper(number_str)), base, show_steps, 0,
                                               [decimal_value |-> 0, steps |-> steps1])
                      decimal_value == IF is_negative THEN 0 - loop.decimal_value
                                       ELSE loop.decimal_value
                      steps2 == loop.steps \o
                                (IF is_negative /\ show_steps
                                 THEN <<Step("Applying negative sign: {decimal_value}", <<decimal_value>>, <<>>)>>
                                 ELSE <<>>) \o
                                <<Step("Final result: {original_str} in base {base} = {decimal_value} in decimal",
                                       <<base, decimal_value>>, <<original_str>>)>>
                  IN  ReturnInt(decimal_value, steps2, show_steps)

(***************************************************************************)
(* dec_to_bin, dec_to_oct, dec_to_hex                                      *)
(***************************************************************************)
\* n.bit_length(): no room for the sign bit
bits_needed_no_sign(n) == bit_length(n)

\* n.bit_length() + 1
bits_needed(n) == bit_length(n) + 1

\* (1 << bits_needed) + n - 1: the ones' complement pattern
twos_complement_ones(n) == ShiftLeftOne(bits_needed(n)) + n - 1

\* (1 << bits_needed) + n
twos_complement(n) == ShiftLeftOne(bits_needed(n)) + n

\* working_n & 3: two bits taken per binary digit
bin_remainder_two_bits(working_n) == BitAnd(working_n, 3)

\* working_n & 1
bin_remainder(working_n) == BitAnd(working_n, 1)

\* The while loop of dec_to_bin; st as in dec_to_base_loop, bits for digits.
RECURSIVE dec_to_bin_loop(_, _)
dec_to_bin_loop(st, show_steps) ==
    IF st.working_n = 0 THEN st
    ELSE LET remainder == bin_remainder(st.working_n)
             steps1 == IF show_steps
                       THEN Append(st.steps,
                                   Step("{step_num:4} | {working_n:7} | 2           | {remainder}",
                                        <<st.step_num, st.working_n, remainder>>, <<>>))
                       ELSE st.steps
             after == [st EXCEPT !.steps = steps1,
                                 !.digits = Append(st.digits, str_digit(remainder)),
                                 !.working_n = ShiftRight(st.working_n, 1)]
         IN  IF ~st.bound
             THEN [after EXCEPT !.exc = "UnboundLocalError"]
             ELSE dec_to_bin_loop(
                      [after EXCEPT !.step_num = st.step_num + (IF show_steps THEN 1 ELSE 0)],
                      show_steps)

dec_to_bin(original_n, show_steps) ==
    IF original_n = 0
    THEN ReturnStr(<<"0">>, <<Step("0 in decimal is 0 in binary", <<>>, <<>>)>>, show_steps)
    ELSE LET is_negative == original_n < 0
             n == IF is_negative THEN twos_complement(original_n) ELSE original_n
             steps0 == IF is_negative
                       THEN <<Step("Converting negative number: {original_n}", <<original_n>>, <<>>),
                              Step("Determined {bits_needed} bits needed for two's complement representation",
                                   <<bits_needed(original_n)>>, <<>>),
                              Step("Computed two's complement value: {n}", <<n>>, <<>>)>>
                       ELSE <<>>
             steps1 == IF show_steps
                       THEN steps0 \o
                            <<Step("Starting decimal to binary conversion of {working_n}:", <<n>>, <<>>),
                              Step("Step | Decimal | Divided by 2 | Remainder", <<>>, <<>>),
                              Step("---- | ------- | ------------ | ---------", <<>>, <<>>)>>
                       ELSE steps0
             loop == dec_to_bin_loop([working_n |-> n, digits |-> <<>>, steps |-> steps1,
                                      step_num |-> 1, bound |-> show_steps, exc |-> ""],
                                     show_steps)
             result == reversed(loop.digits)
             final_result == IF is_negative THEN <<"-">> \o result ELSE result
             steps2 == loop.steps \o
                       <<Step("Reading remainders from bottom to top: {result}", <<>>, <<result>>)>> \o
                       (IF is_negative
                        THEN <<Step("Adding negative sign: {final_result}", <<>>, <<final_result>>)>>
                        ELSE <<>>) \o
                       <<Step("Final result: {original_n} in decimal = {final_result} in binary",
                              <<original_n>>, <<final_result>>)>>
         IN  IF loop.exc # "" THEN UnboundStepNum
             ELSE ReturnStr(final_result, steps2, show_steps)

\* working_n & 3: a two-bit mask for a three-bit shift
oct_remainder_two_bits(working_n) == BitAnd(working_n, 3)

\* working_n & 7
oct_remainder(working_n) == BitAnd(working_n, 7)

\* The while loop of dec_to_oct; chars for digits.
RECURSIVE dec_to_oct_loop(_, _)
dec_to_oct_loop(st, show_steps) ==
    IF st.working_n = 0 THEN st
    ELSE LET remainder == oct_remainder(st.working_n)
             steps1 == IF show_steps
                       THEN Append(st.steps,
                                   Step("{step_num:4} | {working_n:7} | 8           | {remainder}",
                                        <<st.step_num, st.working_n, remainder>>, <<>>))
                       ELSE st.steps
             after == [st EXCEPT !.steps = steps1,
                                 !.digits = Append(st.digits, str_digit(remainder)),
                                 !.working_n = ShiftRight(st.working_n, 3)]
         IN  IF ~st.bound
             THEN [after EXCEPT !.exc = "UnboundLocalError"]
             ELSE dec_to_oct_loop(
                      [after EXCEPT !.step_num = st.step_num + (IF show_steps THEN 1 ELSE 0)],
                      show_steps)

dec_to_oct(original_n, show_steps) ==
    IF original_n = 0
    THEN ReturnStr(<<"0">>, <<Step("0 in decimal is 0 in octal", <<>>, <<>>)>>, show_steps)
    ELSE LET is_negative == original_n < 0
             n == abs(original_n)
             steps0 == IF is_negative
                       THEN <<Step("Converting negative number: {original_n}", <<original_n>>, <<>>),
                              Step("Taking absolute value: {n}", <<n>>, <<>>)>>
                       ELSE <<>>
             steps1 == IF show_steps
                       THEN steps0 \o
                            <<Step("Starting decimal to octal conversion of {working_n}:", <<n>>, <<>>),
                              Step("Step | Decimal | Divided by 8 | Remainder", <<>>, <<>>),
                              Step("---- | ------- | ------------ | ---------", <<>>, <<>>)>>
                       ELSE steps0
             loop == dec_to_oct_loop([working_n |-> n, digits |-> <<>>, steps |-> steps1,
                                      step_num |-> 1, bound |-> show_steps, exc |-> ""],
                                     show_steps)
             result == reversed(loop.digits)
             final_result == IF is_negative THEN <<"-">> \o result ELSE result
             steps2 == loop.steps \o
                       <<Step("Reading remainders from bottom to top: {result}", <<>>, <<result>>)>> \o
                       (IF is_negative
                        THEN <<Step("Adding negative sign: {final_result}", <<>>, <<final_result>>)>>
                        ELSE <<>>) \o
                       <<Step("Final result: {original_n} in decimal = {final_result} in octal",
                              <<original_n>>, <<final_result>>)>>
         IN  IF loop.exc # "" THEN UnboundStepNum
             ELSE ReturnStr(final_result, steps2, show_steps)

\* working_n & 15
hex_remainder(working_n) == BitAnd(working_n, 15)

\* The while loop of dec_to_hex; chars for digits.
RECURSIVE dec_to_hex_loop(_, _)
dec_to_hex_loop(st, show_steps) ==
    IF st.working_n = 0 THEN st
    ELSE LET remainder == hex_remainder(st.working_n)
             hex_digit == HEX_DIGITS[remainder + 1]
             steps1 == IF show_steps
                       THEN Append(st.steps,
                                   Step("{step_num:4} | {working_n:7} | 16          | {remainder:9} | {hex_digit}",
                                        <<st.step_num, st.working_n, remainder>>, <<<<hex_digit>>>>))
                       ELSE st.steps
             after == [st EXCEPT !.steps = steps1,
                                 !.digits = Append(st.digits, hex_digit),
                                 !.working_n = ShiftRight(st.working_n, 4)]
         IN  IF ~st.bound
             THEN [after EXCEPT !.exc = "UnboundLocalError"]
             ELSE dec_to_hex_loop(
                      [after EXCEPT !.step_num = st.step_num + (IF show_steps THEN 1 ELSE 0)],
                      show_steps)

dec_to_hex(original_n, show_steps) ==
    IF original_n = 0
    THEN ReturnStr(<<"0">>, <<Step("0 in decimal is 0 in hexadecimal", <<>>, <<>>)>>, show_steps)
    ELSE LET is_negative == original_n < 0
             n == abs(original_n)
             steps0 == IF is_negative
                       THEN <<Step("Converting negative number: {original_n}", <<original_n>>, <<>>),
                              Step("Taking absolute value: {n}", <<n>>, <<>>)>>
                       ELSE <<>>
             steps1 == IF show_steps
                       THEN steps0 \o
                            <<Step("Starting decimal to hexadecimal conversion of {working_n}:", <<n>>, <<>>),
                              Step("Step | Decimal | Divided by 16 | Remainder | Hex Digit", <<>>, <<>>),
                              Step("---- | ------- | ------------ | --------- | ---------", <<>>, <<>>)>>
                       ELSE steps0
             loop == dec_to_hex_loop([working_n |-> n, digits |-> <<>>, steps |-> steps1,
                                      step_num |-> 1, bound |-> show_steps, exc |-> ""],
                                     show_steps)
             result == reversed(loop.digits)
             final_result == IF is_negative THEN <<"-">> \o result ELSE result
             steps2 == loop.steps \o
                       <<Step("Reading remainders from bottom to top: {result}", <<>>, <<result>>)>> \o
                       (IF is_negative
                        THEN <<Step("Adding negative sign: {final_result}", <<>>, <<final_result>>)>>
                        ELSE <<>>) \o
                       <<Step("Final result: {original_n} in decimal = {final_result} in hexadecimal",
                              <<original_n>>, <<final_result>>)>>
         IN  IF loop.exc # "" THEN UnboundStepNum
             ELSE ReturnStr(final_result, steps2, show_steps)

(***************************************************************************)
(* bin_to_dec, oct_to_dec, hex_to_dec                                      *)
(***************************************************************************)
\* int(digit) for a single decimal digit character
int_of_digit(digit) == index(<<"0","1","2","3","4","5","6","7","8","9">>, digit)

\* the character class of r"[0-2]+"
BinClassWithTwo == <<"0","1","2">>

\* the character class of r"[01]+"
BinClass == <<"0","1">>

\* the character class of r"[0-7]+"
OctClass == <<"0","1","2","3","4","5","6","7">>

\* the character class of r"[0-9A-F]+"
HexClass == <<"0","1","2","3","4","5","6","7","8","9","A","B","C","D","E","F">>

\* The for loop of bin_to_dec over enumerate(reversed(bstr)), from 0-based
\* position i on.  st holds decimal_value and steps.
RECURSIVE bin_to_dec_loop(_, _, _, _)
bin_to_dec_loop(rev, show_steps, i, st) ==
    IF i >= Len(rev) THEN st
    ELSE LET digit == rev[i + 1]
             digit_value == int_of_digit(digit)
             pv == digit_value * (2 ^ i)
         IN  bin_to_dec_loop(rev, show_steps, i + 1,
                 [decimal_value |-> st.decimal_value + pv,
                  steps |-> IF show_steps
                            THEN Append(st.steps,
                                        Step("{i:8} | {digit:5} | {position_value:24}",
                                             <<i, pv>>, <<<<digit>>>>))
                            ELSE st.steps])

bin_to_dec(original_bstr, show_steps) ==
    LET is_negative == startswith_minus(original_bstr)
        bstr == IF is_negative THEN tail1(original_bstr) ELSE original_bstr
        steps0 == IF is_negative
                  THEN <<Step("Converting negative binary number: {original_bstr}", <<>>, <<original_bstr>>),
                         Step("Removing negative sign for conversion: {bstr}", <<>>, <<bstr>>)>>
                  ELSE <<>>
    IN  IF ~fullmatch_class_plus(BinClass, bstr)
        THEN Raise("ValueError", "Invalid binary number", <<>>)
        ELSE LET steps1 == IF show_steps
                           THEN steps0 \o
                                <<Step("Starting binary to decimal conversion of {bstr}:", <<>>, <<bstr>>),
                                  Step("Position | Digit | Value = Digit x 2^Position", <<>>, <<>>),
                                  Step("-------- | ----- | --------------------------", <<>>, <<>>)>>
                           ELSE steps0
                 loop == bin_to_dec_loop(reversed(bstr), show_steps, 0,
                                          [decimal_value |-> 0, steps |-> steps1])
                 decimal_value == IF is_negative THEN 0 - loop.decimal_value
                                  ELSE loop.decimal_value
                 steps2 == loop.steps \o
                           (IF is_negative /\ show_steps
                            THEN <<Step("Applying negative sign: {decimal_value}", <<decimal_value>>, <<>>)>>
                            ELSE <<>>) \o
                           <<Step("Final result: {original_bstr} in binary = {decimal_value} in decimal",
                                  <<decimal_value>>, <<original_bstr>>)>>
             IN  ReturnInt(decimal_value, steps2, show_steps)

\* The for loop of oct_to_dec over enumerate(reversed(ostr)), from 0-based
\* position i on.  st holds decimal_value and steps.
RECURSIVE oct_to_dec_loop(_, _, _, _)
oct_to_dec_loop(rev, show_steps, i, st) ==
    IF i >= Len(rev) THEN st
    ELSE LET digit == rev[i + 1]
             digit_value == int_of_digit(digit)
             pv == digit_value * (8 ^ i)
         IN  oct_to_dec_loop(rev, show_steps, i + 1,
                 [decimal_value |-> st.decimal_value + pv,
                  steps |-> IF show_steps
                            THEN Append(st.steps,
                                        Step("{i:8} | {digit:5} | {position_value:24}",
                                             <<i, pv>>, <<<<digit>>>>))
                            ELSE st.steps])

oct_to_dec(original_ostr, show_steps) ==
    LET is_negative == startswith_minus(original_ostr)
        ostr == IF is_negative THEN tail1(original_ostr) ELSE original_ostr
        steps0 == IF is_negative
                  THEN <<Step("Converting negative octal number: {original_ostr}", <<>>, <<original_ostr>>),
                         Step("Removing negative sign for conversion: {ostr}", <<>>, <<ostr>>)>>
                  ELSE <<>>
    IN  IF ~fullmatch_class_plus(OctClass, ostr)
        THEN Raise("ValueError", "Invalid octal number", <<>>)
        ELSE LET steps1 == IF show_steps
                           THEN steps0 \o
                                <<Step("Starting octal to decimal conversion of {ostr}:", <<>>, <<ostr>>),
                                  Step("Position | Digit | Value = Digit x 8^Position", <<>>, <<>>),
                                  Step("-------- | ----- | --------------------------", <<>>, <<>>)>>
                           ELSE steps0
                 loop == oct_to_dec_loop(reversed(ostr), show_steps, 0,
                                          [decimal_value |-> 0, steps |-> steps1])
                 decimal_value == IF is_negative THEN 0 - loop.decimal_value
                                  ELSE loop.decimal_value
                 steps2 == loop.steps \o
                           (IF is_negative /\ show_steps
                            THEN <<Step("Applying negative sign: {decimal_value}", <<decimal_value>>, <<>>)>>
                            ELSE <<>>) \o
                           <<Step("Final result: {original_ostr} in octal = {decimal_value} in decimal",
                                  <<decimal_value>>, <<original_ostr>>)>>
             IN  ReturnInt(decimal_value, steps2, show_steps)

\* The for loop of hex_to_dec over enumerate(reversed(hstr)), from 0-based
\* position i on.  st holds decimal_value and steps.
RECURSIVE hex_to_dec_loop(_, _, _, _)
hex_to_dec_loop(rev, show_steps, i, st) ==
    IF i >= Len(rev) THEN st
    ELSE LET digit == rev[i + 1]
             digit_value == index(HEX_DIGITS, digit)
             pv == digit_value * (16 ^ i)
         IN  hex_to_dec_loop(rev, show_steps, i + 1,
                 [decimal_value |-> st.decimal_value + pv,
                  steps |-> IF show_steps
                            THEN Append(st.steps,
                                        Step("{i:8} | {digit:5} | {digit_value:11} | {position_value:35}",
                                             <<i, digit_value, pv>>, <<<<digit>>>>))
                            ELSE st.steps])

hex_to_dec(original_hstr, show_steps) ==
    LET is_negative == startswith_minus(upper(original_hstr))
        hstr == IF is_negative THEN tail1(upper(original_hstr)) ELSE upper(original_hstr)
        steps0 == IF is_negative
                  THEN <<Step("Converting negative hexadecimal number: {original_hstr}", <<>>, <<original_hstr>>),
                         Step("Removing negative sign for conversion: {hstr}", <<>>, <<hstr>>)>>
                  ELSE <<>>
    IN  IF ~fullmatch_class_plus(HexClass, hstr)
        THEN Raise("ValueError", "Invalid hexadecimal number", <<>>)
        ELSE LET steps1 == IF show_steps
                           THEN steps0 \o
                                <<Step("Starting hexadecimal to decimal conversion of {hstr}:", <<>>, <<hstr>>),
                                  Step("Position | Digit | Digit Value | Value = Digit Value x 16^Position", <<>>, <<>>),
                                  Step("-------- | ----- | ----------- | -----------------------------------", <<>>, <<>>)>>
                           ELSE steps0
                 loop == hex_to_dec_loop(reversed(hstr), show_steps, 0,
                                          [decimal_value |-> 0, steps |-> steps1])
                 decimal_value == IF is_negative THEN 0 - loop.decimal_value
                                  ELSE loop.decimal_value
                 steps2 == loop.steps \o
                           (IF is_negative /\ show_steps
                            THEN <<Step("Applying negative sign: {decimal_value}", <<decimal_value>>, <<>>)>>
                            ELSE <<>>) \o
                           <<Step("Final result: {original_hstr} in hexadecimal = {decimal_value} in decimal",
                                  <<decimal_value>>, <<original_hstr>>)>>
             IN  ReturnInt(decimal_value, steps2, show_steps)

(***************************************************************************)
(* Cross conversions via decimal                                           *)
(***************************************************************************)
\* bin_to_oct whose trace names the result first and then lists the
\* decimal-to-octal records ahead of the binary-to-decimal ones
bin_to_oct_summary_first(bstr, show_steps) ==
    LET first == bin_to_dec(bstr, show_steps)
        second == dec_to_oct(first.value, show_steps)
    IN  IF first.kind = "raise" THEN first
        ELSE IF second.kind = "raise" THEN second
        ELSE ReturnStr(second.numeral,
                       <<Step("Complete conversion: {bstr} (binary) = {oct_value} (octal)",
                              <<>>, <<bstr, second.numeral>>)>> \o second.steps \o first.steps,
                       show_steps)

bin_to_oct(bstr, show_steps) ==
    IF show_steps
    THEN LET first == bin_to_dec(bstr, TRUE)
             second == dec_to_oct(first.value, TRUE)
             oct_value == second.numeral
             steps == <<Step("Starting binary to octal conversion of {bstr}", <<>>, <<bstr>>),
                        Step("Step 1: Convert binary to decimal", <<>>, <<>>),
                        Step("==================================================", <<>>, <<>>)>> \o
                      first.steps \o
                      <<Step("", <<>>, <<>>),
                        Step("Step 2: Convert decimal to octal", <<>>, <<>>),
                        Step("==================================================", <<>>, <<>>)>> \o
                      second.steps \o
                      <<Step("", <<>>, <<>>),
                        Step("==================================================", <<>>, <<>>),
                        Step("Complete conversion: {bstr} (binary) = {oct_value} (octal)",
                             <<>>, <<bstr, oct_value>>)>>
         IN  IF first.kind = "raise" THEN first
             ELSE IF second.kind = "raise" THEN second
             ELSE ReturnStr(oct_value, steps, TRUE)
    ELSE LET first == bin_to_dec(bstr, FALSE)
         IN  IF first.kind = "raise" THEN first
             ELSE dec_to_oct(first.value, FALSE)

bin_to_hex(bstr, show_steps) ==
    IF show_steps
    THEN LET first == bin_to_dec(bstr, TRUE)
             second == dec_to_hex(first.value, TRUE)
             hex_value == second.numeral
             steps == <<Step("Starting binary to hexadecimal conversion of {bstr}", <<>>, <<bstr>>),
                        Step("Step 1: Convert binary to decimal", <<>>, <<>>),
                        Step("==================================================", <<>>, <<>>)>> \o
                      first.steps \o
                      <<Step("", <<>>, <<>>),
                        Step("Step 2: Convert decimal to hexadecimal", <<>>, <<>>),
                        Step("==================================================", <<>>, <<>>)>> \o
                      second.steps \o
                      <<Step("", <<>>, <<>>),
                        Step("==================================================", <<>>, <<>>),
                        Step("Complete conversion: {bstr} (binary) = {hex_value} (hexadecimal)",
                             <<>>, <<bstr, hex_value>>)>>
         IN  IF first.kind = "raise" THEN first
             ELSE IF second.kind = "raise" THEN second
             ELSE ReturnStr(hex_value, steps, TRUE)
    ELSE LET first == bin_to_dec(bstr, FALSE)
         IN  IF first.kind = "raise" THEN first
             ELSE dec_to_hex(first.value, FALSE)

oct_to_bin(ostr, show_steps) ==
    IF show_steps
    THEN LET first == oct_to_dec(ostr, TRUE)
             second == dec_to_bin(first.value, TRUE)
             bin_value == second.numeral
             steps == <<Step("Starting octal to binary conversion of {ostr}", <<>>, <<ostr>>),
                        Step("Step 1: Convert octal to decimal", <<>>, <<>>),
                        Step("==================================================", <<>>, <<>>)>> \o
                      first.steps \o
                      <<Step("", <<>>, <<>>),
                        Step("Step 2: Convert decimal to binary", <<>>, <<>>),
                        Step("==================================================", <<>>, <<>>)>> \o
                      second.steps \o
                      <<Step("", <<>>, <<>>),
                        Step("==================================================", <<>>, <<>>),
                        Step("Complete conversion: {ostr} (octal) = {bin_value} (binary)",
                             <<>>, <<ostr, bin_value>>)>>
         IN  IF first.kind = "raise" THEN first
             ELSE IF second.kind = "raise" THEN second
             ELSE ReturnStr(bin_value, steps, TRUE)
    ELSE LET first == oct_to_dec(ostr, FALSE)
         IN  IF first.kind = "raise" THEN first
             ELSE dec_to_bin(first.value, FALSE)

oct_to_hex(ostr, show_steps) ==
    IF show_steps
    THEN LET first == oct_to_dec(ostr, TRUE)
             second == dec_to_hex(first.value, TRUE)
             hex_value == second.numeral
             steps == <<Step("Starting octal to hexadecimal conversion of {ostr}", <<>>, <<ostr>>),
                        Step("Step 1: Convert octal to decimal", <<>>, <<>>),
                        Step("==================================================", <<>>, <<>>)>> \o
                      first.steps \o
                      <<Step("", <<>>, <<>>),
                        Step("Step 2: Convert decimal to hexadecimal", <<>>, <<>>),
                        Step("==================================================", <<>>, <<>>)>> \o
                      second.steps \o
                      <<Step("", <<>>, <<>>),
                        Step("==================================================", <<>>, <<>>),
                        Step("Complete conversion: {ostr} (octal) = {hex_value} (hexadecimal)",
                             <<>>, <<ostr, hex_value>>)>>
         IN  IF first.kind = "raise" THEN first
             ELSE IF second.kind = "raise" THEN second
             ELSE ReturnStr(hex_value, steps, TRUE)
    ELSE LET first == oct_to_dec(ostr, FALSE)
         IN  IF first.kind = "raise" THEN first
             ELSE dec_to_hex(first.value, FALSE)

hex_to_bin(hstr, show_steps) ==
    IF show_steps
    THEN LET first == hex_to_dec(hstr, TRUE)
             second == dec_to_bin(first.value, TRUE)
             bin_value == second.numeral
             steps == <<Step("Starting hexadecimal to binary conversion of {hstr}", <<>>, <<hstr>>),
                        Step("Step 1: Convert hexadecimal to decimal", <<>>, <<>>),
                        Step("==================================================", <<>>, <<>>)>> \o
                      first.steps \o
                      <<Step("", <<>>, <<>>),
                        Step("Step 2: Convert decimal to binary", <<>>, <<>>),
                        Step("==================================================", <<>>, <<>>)>> \o
                      second.steps \o
                      <<Step("", <<>>, <<>>),
                        Step("==================================================", <<>>, <<>>),
                        Step("Complete conversion: {hstr} (hexadecimal) = {bin_value} (binary)",
                             <<>>, <<hstr, bin_value>>)>>
         IN  IF first.kind = "raise" THEN first
             ELSE IF second.kind = "raise" THEN second
             ELSE ReturnStr(bin_value, steps, TRUE)
    ELSE LET first == hex_to_dec(hstr, FALSE)
         IN  IF first.kind = "raise" THEN first
             ELSE dec_to_bin(first.value, FALSE)

hex_to_oct(hstr, show_steps) ==
    IF show_steps
    THEN LET first == hex_to_dec(hstr, TRUE)
             second == dec_to_oct(first.value, TRUE)
             oct_value == second.numeral
             steps == <<Step("Starting hexadecimal to octal conversion of {hstr}", <<>>, <<hstr>>),
                        Step("Step 1: Convert hexadecimal to decimal", <<>>, <<>>),
                        Step("==================================================", <<>>, <<>>)>> \o
                      first.steps \o
                      <<Step("", <<>>, <<>>),
                        Step("Step 2: Convert decimal to octal", <<>>, <<>>),
                        Step("==================================================", <<>>, <<>>)>> \o
                      second.steps \o
                      <<Step("", <<>>, <<>>),
                        Step("==================================================", <<>>, <<>>),
                        Step("Complete conversion: {hstr} (hexadecimal) = {oct_value} (octal)",
                             <<>>, <<hstr, oct_value>>)>>
         IN  IF first.kind = "raise" THEN first
             ELSE IF second.kind = "raise" THEN second
             ELSE ReturnStr(oct_value, steps, TRUE)
    ELSE LET first == hex_to_dec(hstr, FALSE)
         IN  IF first.kind = "raise" THEN first
             ELSE dec_to_oct(first.value, FALSE)

(***************************************************************************)
(* dec_to_base_float                                                       *)
(*                                                                         *)
(* A float argument is a record: cls is "finite", "inf" or "nan"; a finite *)
(* float is the dyadic rational num / FracDen, an infinity carries its     *)
(* sign in num.  On these values the float operations of the code          *)
(* (abs, int(), -, *=, -=, == 0) are exact, so they are computed on the    *)
(* numerators.                                                             *)
(***************************************************************************)
\* the denominator of the finite float arguments: they are multiples of 2^-FracBits
FracDen == 2 ^ FracBits

\* precision: int = 10
DEFAULT_PRECISION == 10

\* The for loop of dec_to_base_float without its early exit
\* "if working_frac == 0: break".
RECURSIVE dec_to_base_float_loop_no_break(_, _, _, _)
dec_to_base_float_loop_no_break(st, base, show_steps, left) ==
    IF left <= 0 THEN st
    ELSE LET multiplied == st.working_frac * base
             int_digit == multiplied \div FracDen
         IN  dec_to_base_float_loop_no_break(
                 [working_frac |-> multiplied - int_digit * FracDen,
                  frac_result |-> Append(st.frac_result, BASE_DIGITS[int_digit + 1]),
                  steps |-> st.steps,
                  step_num |-> st.step_num],
                 base, show_steps, left - 1)

\* The for loop of dec_to_base_float over range(precision), with `left`
\* iterations to go.  st holds working_frac (its numerator), frac_result,
\* steps and step_num.
RECURSIVE dec_to_base_float_loop(_, _, _, _)
dec_to_base_float_loop(st, base, show_steps, left) ==
    IF left <= 0 THEN st
    ELSE LET multiplied == st.working_frac * base
             int_digit == multiplied \div FracDen
             after == [working_frac |-> multiplied - int_digit * FracDen,
                       frac_result |-> Append(st.frac_result, BASE_DIGITS[int_digit + 1]),
                       steps |-> IF show_steps
                                 THEN Append(st.steps,
                                             Step("{step_num:4} | {working_frac/base:10.6f} | {base:20} | {working_frac:9.6f} | {int_digit:12}",
                                                  <<st.step_num, st.working_frac, base, multiplied, int_digit>>,
                                                  <<>>))
                                 ELSE st.steps,
                       step_num |-> IF show_steps THEN st.step_num + 1 ELSE st.step_num]
         IN  IF after.working_frac = 0 THEN after
             ELSE dec_to_base_float_loop(after, base, show_steps, left - 1)

dec_to_base_float(original_decimal, base, precision, show_steps) ==
    IF original_decimal.cls = "finite" /\ original_decimal.num = 0
    THEN ReturnStr(<<"0", ".", "0">>,
                   <<Step("0.0 in decimal is 0.0 in base {base}", <<base>>, <<>>)>>,
                   show_steps)
    ELSE IF ~(MIN_BASE <= base /\ base <= MAX_BASE)
    THEN InvalidBase
    ELSE IF original_decimal.cls = "inf"
    THEN Raise("OverflowError", "cannot convert float infinity to integer", <<>>)
    ELSE IF original_decimal.cls = "nan"
    THEN Raise("ValueError", "cannot convert float NaN to integer", <<>>)
    ELSE LET is_negative == original_decimal.num < 0
             decimal == abs(original_decimal.num)
             steps0 == IF is_negative
                       THEN <<Step("Converting negative number: {original_decimal}",
                                   <<original_decimal.num>>, <<>>),
                              Step("Taking absolute value: {decimal}", <<decimal>>, <<>>)>>
                       ELSE <<>>
             int_part == decimal \div FracDen
             frac_part == decimal - int_part * FracDen
             int_call == dec_to_base(int_part, base, FALSE)
             int_result == int_call.numeral
             steps1 == IF show_steps
                       THEN steps0 \o
                            <<Step("Converting integer part {int_part}: {int_result}",
                                   <<int_part>>, <<int_result>>),
                              Step("Converting fractional part {frac_part}:", <<frac_part>>, <<>>),
                              Step("Step | Fractional | Multiplied by Base | Result    | Integer Part",
                                   <<>>, <<>>),
                              Step("---- | ---------- | ------------------ | --------- | ------------",
                                   <<>>, <<>>)>>
                       ELSE steps0
             loop == dec_to_base_float_loop([working_frac |-> frac_part, frac_result |-> <<>>,
                                             steps |-> steps1, step_num |-> 1],
                                            base, show_steps, precision)
             result == IF loop.frac_result # <<>>
                       THEN int_result \o <<".">> \o loop.frac_result
                       ELSE int_result
             final_result == IF is_negative THEN <<"-">> \o result ELSE result
             steps2 == loop.steps \o
                       <<Step("Combining results: {final_result}", <<>>, <<final_result>>)>> \o
                       (IF is_negative
                        THEN <<Step("Adding negative sign: {final_result}", <<>>, <<final_result>>)>>
                        ELSE <<>>) \o
                       <<Step("Final result: {original_decimal} in decimal = {final_result} in base {base}",
                              <<original_decimal.num, base>>, <<final_result>>)>>
         IN  IF int_call.kind = "raise" THEN int_call
             ELSE ReturnStr(final_result, steps2, show_steps)

(***************************************************************************)
(* char_to_ascii, ascii_to_char: a str is given by its code points         *)
(***************************************************************************)
\* char_to_ascii that looks at the first character of a longer str
char_to_ascii_first_of_many(char, show_steps) ==
    IF len(char) < 1
    THEN Raise("ValueError", "Please enter a single character", <<>>)
    ELSE ReturnInt(ord(char), <<>>, show_steps)

char_to_ascii(char, show_steps) ==
    IF len(char) # 1
    THEN Raise("ValueError", "Please enter a single character", <<>>)
    ELSE LET code_point == ord(char)
         IN  ReturnInt(code_point,
                       <<Step("Character: '{char}'", char, <<>>),
                         Step("ASCII/Unicode code point: {code_point}", <<code_point>>, <<>>),
                         Step("Binary representation: {bin(code_point)[2:]}",
                              <<>>, <<radix_digits(code_point, 2)>>),
                         Step("Hexadecimal representation: {hex(code_point)[2:].upper()}",
                              <<>>, <<radix_digits(code_point, 16)>>)>>,
                       show_steps)

\* ascii_to_char for the Basic Multilingual Plane only
ascii_to_char_bmp(code_point, show_steps) ==
    IF ~(0 <= code_point /\ code_point <= 65535)
    THEN Raise("ValueError", "Code point must be between 0 and 1114111", <<>>)
    ELSE ReturnChars(chr(code_point), <<>>, show_steps)

ascii_to_char(code_point, show_steps) ==
    IF ~(0 <= code_point /\ code_point <= 1114111)
    THEN Raise("ValueError", "Code point must be between 0 and 1114111", <<>>)
    ELSE IF ~(0 <= code_point /\ code_point < 1114112)
    THEN Raise("ValueError", "Invalid code point: {code_point}", <<code_point>>)
    ELSE LET char == chr(code_point)
         IN  ReturnChars(char,
                         <<Step("Code point: {code_point}", <<code_point>>, <<>>),
                           Step("Character: '{char}'", char, <<>>),
                           Step("Binary representation: {bin(code_point)[2:]}",
                                <<>>, <<radix_digits(code_point, 2)>>),
                           Step("Hexadecimal representation: {hex(code_point)[2:].upper()}",
                                <<>>, <<radix_digits(code_point, 16)>>)>>,
                         show_steps)

(***************************************************************************)
(* detect_base                                                             *)
(***************************************************************************)
\* the character class of r"[0-9]+"
DecClass == <<"0","1","2","3","4","5","6","7","8","9">>

\* the character class of r"[0-9A-Fa-f]+"
HexAnyCaseClass ==
    <<"0","1","2","3","4","5","6","7","8","9",
      "A","B","C","D","E","F","a","b","c","d","e","f">>

detect_base(original_str) ==
    LET number_str == strip(original_str)
    IN  IF startswith(lower(number_str), <<"0", "b">>) THEN 2
        ELSE IF startswith(lower(number_str), <<"0", "o">>) THEN 8
        ELSE IF startswith(lower(number_str), <<"0", "x">>) THEN 16
        ELSE IF fullmatch_opt_minus_class_plus(BinClass, number_str) THEN 2
        ELSE IF fullmatch_opt_minus_class_plus(OctClass, number_str) THEN 8
        ELSE IF fullmatch_opt_minus_class_plus(DecClass, number_str) THEN 10
        ELSE IF fullmatch_opt_minus_class_plus(HexAnyCaseClass, number_str) THEN 16
        ELSE 0

(***************************************************************************)
(* The color scheme globals and toggle_color_scheme                        *)
(***************************************************************************)
\* the SGR codes of the two schemes
COLOR_SCHEMES ==
    [light |-> [RESET |-> 0, RED |-> 31, GREEN |-> 32, YELLOW |-> 33, BLUE |-> 34,
                PURPLE |-> 35, CYAN |-> 36, WHITE |-> 37, BOLD |-> 1, UNDERLINE |-> 4],
     dark |-> [RESET |-> 0, RED |-> 91, GREEN |-> 92, YELLOW |-> 93, BLUE |-> 94,
               PURPLE |-> 95, CYAN |-> 96, WHITE |-> 97, BOLD |-> 1, UNDERLINE |-> 4]]

\* Colors(scheme): the instance remembers its scheme and that scheme's codes
Colors(scheme) ==
    [scheme |-> scheme,
     colors |-> IF scheme \in DOMAIN COLOR_SCHEMES
                THEN COLOR_SCHEMES[scheme] ELSE COLOR_SCHEMES["dark"]]

\* the value toggle_color_scheme assigns to CURRENT_SCHEME
toggled(scheme) == IF scheme = "dark" THEN "light" ELSE "dark"

(***************************************************************************)
(* State: the last call made and how it ended                              *)
(***************************************************************************)
VARIABLES call, outcome, CURRENT_SCHEME, colors, frame, menu

vars == <<call, outcome, CURRENT_SCHEME, colors, frame, menu>>

\* the module-level variables a function can rebind with "global"
globals == <<CURRENT_SCHEME, colors>>

Ints == (0 - MaxN)..MaxN
Bases == (MIN_BASE - BaseSlack)..(MAX_BASE + BaseSlack)
Precisions == (0..MaxPrecision) \cup {DEFAULT_PRECISION}

\* the characters numeral strings are made of: digits at the edges of bases
\* 2, 8, 10 and 16, a lowercase hex letter, a non-digit and the sign
Chars == {"0", "1", "2", "5", "7", "8", "A", "F", "f", "G", "-"}

RECURSIVE StringsOfLen(_)
StringsOfLen(k) ==
    IF k = 0 THEN {<<>>}
    ELSE {Append(s, c) : s \in StringsOfLen(k - 1), c \in Chars}

\* every str of at most MaxLen characters
Strings == UNION {StringsOfLen(k) : k \in 0..MaxLen}

\* the characters of the strings given to detect_base: digits of each class,
\* the prefix letters in both cases, a hex letter, a non-digit, the sign and
\* a blank
SniffChars == {"0", "1", "7", "8", "9", "b", "o", "x", "X", "F", "Z", "-", " "}

RECURSIVE SniffStringsOfLen(_)
SniffStringsOfLen(k) ==
    IF k = 0 THEN {<<>>}
    ELSE {Append(s, c) : s \in SniffStringsOfLen(k - 1), c \in SniffChars}

\* longer strings: a prefixed literal in either case, a padded numeral and
\* a signed hex numeral
SniffExamples ==
    {<<"0", "x", "1", "F">>, <<"0", "X", "1", "F">>, <<" ", "-", "1", "0", "1", " ">>,
     <<"-", "F", "F", "8", "9">>}

SniffStrings == UNION {SniffStringsOfLen(k) : k \in 0..MaxSniffLen} \cup SniffExamples

\* code points at the edges of the ranges chr distinguishes: 'A', 'b', the
\* last one before the surrogates, both ends of the surrogates, an emoji,
\* the last code point, and the first values outside on either side
CodePoints ==
    ((0 - MaxCharLen)..MaxCharLen)
        \cup {65, 98, 55295, 55296, 57343, 57344, 128512, 1114111, 1114112}

\* the characters of the strs given to char_to_ascii
CharPoints == {65, 98, 55296, 128512}

RECURSIVE CharStringsOfLen(_)
CharStringsOfLen(k) ==
    IF k = 0 THEN {<<>>}
    ELSE {Append(s, c) : s \in CharStringsOfLen(k - 1), c \in CharPoints}

CharStrings == UNION {CharStringsOfLen(k) : k \in 0..MaxCharLen}

Finite(num) == [cls |-> "finite", num |-> num]

\* the float arguments: the multiples of 2^-FracBits, the infinities and NaN
Floats ==
    {Finite(num) : num \in (0 - MaxFloatNum)..MaxFloatNum}
        \cup {[cls |-> "inf", num |-> 1], [cls |-> "inf", num |-> 0 - 1],
              [cls |-> "nan", num |-> 0]}

\* the arguments of a call; the ones the function does not take stay at
\* their neutral value
Call(fn, n, base, s, show_steps) ==
    [fn |-> fn, n |-> n, base |-> base, s |-> s, x |-> Finite(0), precision |-> 0,
     chars |-> <<>>, show_steps |-> show_steps]

CallFloat(fn, x, base, precision, show_steps) ==
    [fn |-> fn, n |-> 0, base |-> base, s |-> <<>>, x |-> x, precision |-> precision,
     chars |-> <<>>, show_steps |-> show_steps]

\* the arguments of a call of char_to_ascii
CallChars(fn, char, show_steps) ==
    [fn |-> fn, n |-> 0, base |-> 0, s |-> <<>>, x |-> Finite(0), precision |-> 0,
     chars |-> char, show_steps |-> show_steps]

NoOutcome ==
    [kind |-> "none", exc |-> "", msg |-> "", margs |-> <<>>,
     numeral |-> <<>>, value |-> 0, chars |-> <<>>, pair |-> FALSE, steps |-> <<>>]

\* the locals of a call whose loop is followed iteration by iteration: pc is
\* "idle" outside a call, the name of the loop inside it, "returned" or
\* "raised" once it is over
NoFrame ==
    [fn |-> "none", pc |-> "idle", n |-> 0, base |-> 0, s |-> <<>>, show_steps |-> FALSE,
     precision |-> 0, working_n |-> 0, digits |-> <<>>, iterations |-> 0, bound |-> FALSE,
     todo |-> <<>>, left |-> 0, broke |-> FALSE, decimal_value |-> 0, result |-> <<>>]

\* the locals of menu(): pc is "off" while menu() is not running, then the
\* statement group it is at; choice is the stripped line typed at the menu,
\* option_num the entry chosen, simplified whether the except block is
\* running the entry of CONVERSIONS, reads the number of inputs read for the
\* conversion and n, base, s, x, char those inputs; exc is the exception in
\* flight, handler the except clause that caught one, and exit and exit_at
\* the exception that ended the program and the statement that raised it
NoMenu ==
    [pc |-> "off", choice |-> <<>>, option_num |-> 0, simplified |-> FALSE, reads |-> 0,
     n |-> 0, base |-> 0, s |-> <<>>, x |-> Finite(0), char |-> <<>>,
     exc |-> "", handler |-> "", exit |-> "", exit_at |-> ""]

Init ==
    /\ menu = NoMenu
    /\ call = Call("none", 0, 0, <<>>, FALSE)
    /\ outcome = NoOutcome
    /\ CURRENT_SCHEME = "dark"
    /\ colors = Colors(CURRENT_SCHEME)
    /\ frame = NoFrame

\* no call is in progress: the caller is between two conversions
Idle == call.fn = "none"

Call_dec_to_base ==
    /\ Idle
    /\ \E n \in Ints, base \in Bases, show_steps \in BOOLEAN :
        /\ call' = Call("dec_to_base", n, base, <<>>, show_steps)
        /\ outcome' = dec_to_base(n, base, show_steps)
    /\ UNCHANGED <<globals, frame, menu>>

Call_base_to_dec ==
    /\ Idle
    /\ \E number_str \in Strings, base \in Bases, show_steps \in BOOLEAN :
        /\ call' = Call("base_to_dec", 0, base, number_str, show_steps)
        /\ outcome' = base_to_dec(number_str, base, show_steps)
    /\ UNCHANGED <<globals, frame, menu>>

Call_dec_to_base_float ==
    /\ Idle
    /\ \E decimal \in Floats, base \in Bases, precision \in Precisions, show_steps \in BOOLEAN :
        /\ call' = CallFloat("dec_to_base_float", decimal, base, precision, show_steps)
        /\ outcome' = dec_to_base_float(decimal, base, precision, show_steps)
    /\ UNCHANGED <<globals, frame, menu>>

Call_dec_to_bin ==
    /\ Idle
    /\ \E n \in Ints, show_steps \in BOOLEAN :
        /\ call' = Call("dec_to_bin", n, 0, <<>>, show_steps)
        /\ outcome' = dec_to_bin(n, show_steps)
    /\ UNCHANGED <<globals, frame, menu>>

Call_dec_to_oct ==
    /\ Idle
    /\ \E n \in Ints, show_steps \in BOOLEAN :
        /\ call' = Call("dec_to_oct", n, 0, <<>>, show_steps)
        /\ outcome' = dec_to_oct(n, show_steps)
    /\ UNCHANGED <<globals, frame, menu>>

\* a dec_to_hex call that switches the color scheme on its way
Call_dec_to_hex_toggling ==
    /\ Idle
    /\ \E n \in Ints, show_steps \in BOOLEAN :
        /\ call' = Call("dec_to_hex", n, 0, <<>>, show_steps)
        /\ outcome' = dec_to_hex(n, show_steps)
    /\ CURRENT_SCHEME' = toggled(CURRENT_SCHEME)
    /\ colors' = Colors(CURRENT_SCHEME')
    /\ UNCHANGED <<frame, menu>>

Call_dec_to_hex ==
    /\ Idle
    /\ \E n \in Ints, show_steps \in BOOLEAN :
        /\ call' = Call("dec_to_hex", n, 0, <<>>, show_steps)
        /\ outcome' = dec_to_hex(n, show_steps)
    /\ UNCHANGED <<globals, frame, menu>>

Call_bin_to_dec ==
    /\ Idle
    /\ \E bstr \in Strings, show_steps \in BOOLEAN :
        /\ call' = Call("bin_to_dec", 0, 0, bstr, show_steps)
        /\ outcome' = bin_to_dec(bstr, show_steps)
    /\ UNCHANGED <<globals, frame, menu>>

Call_oct_to_dec ==
    /\ Idle
    /\ \E ostr \in Strings, show_steps \in BOOLEAN :
        /\ call' = Call("oct_to_dec", 0, 0, ostr, show_steps)
        /\ outcome' = oct_to_dec(ostr, show_steps)
    /\ UNCHANGED <<globals, frame, menu>>

Call_hex_to_dec ==
    /\ Idle
    /\ \E hstr \in Strings, show_steps \in BOOLEAN :
        /\ call' = Call("hex_to_dec", 0, 0, hstr, show_steps)
        /\ outcome' = hex_to_dec(hstr, show_steps)
    /\ UNCHANGED <<globals, frame, menu>>

Call_bin_to_oct ==
    /\ Idle
    /\ \E bstr \in Strings, show_steps \in BOOLEAN :
        /\ call' = Call("bin_to_oct", 0, 0, bstr, show_steps)
        /\ outcome' = bin_to_oct(bstr, show_steps)
    /\ UNCHANGED <<globals, frame, menu>>

Call_bin_to_hex ==
    /\ Idle
    /\ \E bstr \in Strings, show_steps \in BOOLEAN :
        /\ call' = Call("bin_to_hex", 0, 0, bstr, show_steps)
        /\ outcome' = bin_to_hex(bstr, show_steps)
    /\ UNCHANGED <<globals, frame, menu>>

Call_oct_to_bin ==
    /\ Idle
    /\ \E ostr \in Strings, show_steps \in BOOLEAN :
        /\ call' = Call("oct_to_bin", 0, 0, ostr, show_steps)
        /\ outcome' = oct_to_bin(ostr, show_steps)
    /\ UNCHANGED <<globals, frame, menu>>

Call_oct_to_hex ==
    /\ Idle
    /\ \E ostr \in Strings, show_steps \in BOOLEAN :
        /\ call' = Call("oct_to_hex", 0, 0, ostr, show_steps)
        /\ outcome' = oct_to_hex(ostr, show_steps)
    /\ UNCHANGED <<globals, frame, menu>>

Call_hex_to_bin ==
    /\ Idle
    /\ \E hstr \in Strings, show_steps \in BOOLEAN :
        /\ call' = Call("hex_to_bin", 0, 0, hstr, show_steps)
        /\ outcome' = hex_to_bin(hstr, show_steps)
    /\ UNCHANGED <<globals, frame, menu>>

Call_hex_to_oct ==
    /\ Idle
    /\ \E hstr \in Strings, show_steps \in BOOLEAN :
        /\ call' = Call("hex_to_oct", 0, 0, hstr, show_steps)
        /\ outcome' = hex_to_oct(hstr, show_steps)
    /\ UNCHANGED <<globals, frame, menu>>

\* The caller has consumed the outcome; nothing of the call is kept and the
\* next conversion starts from scratch.
Discard ==
    /\ ~Idle
    /\ call' = Call("none", 0, 0, <<>>, FALSE)
    /\ outcome' = NoOutcome
    /\ UNCHANGED <<globals, frame, menu>>

Call_char_to_ascii ==
    /\ Idle
    /\ \E char \in CharStrings, show_steps \in BOOLEAN :
        /\ call' = CallChars("char_to_ascii", char, show_steps)
        /\ outcome' = char_to_ascii(char, show_steps)
    /\ UNCHANGED <<globals, frame, menu>>

Call_ascii_to_char ==
    /\ Idle
    /\ \E code_point \in CodePoints, show_steps \in BOOLEAN :
        /\ call' = Call("ascii_to_char", code_point, 0, <<>>, show_steps)
        /\ outcome' = ascii_to_char(code_point, show_steps)
    /\ UNCHANGED <<globals, frame, menu>>

Call_detect_base ==
    /\ Idle
    /\ \E number_str \in SniffStrings :
        /\ call' = Call("detect_base", 0, 0, number_str, FALSE)
        /\ outcome' = ReturnInt(detect_base(number_str), <<>>, FALSE)
    /\ UNCHANGED <<globals, frame, menu>>

\* toggle_color_scheme(): rebinds both globals and returns the confirmation
Call_toggle_color_scheme ==
    /\ Idle
    /\ CURRENT_SCHEME' = toggled(CURRENT_SCHEME)
    /\ colors' = Colors(CURRENT_SCHEME')
    /\ call' = Call("toggle_color_scheme", 0, 0, <<>>, FALSE)
    /\ outcome' = [NoOutcome EXCEPT !.kind = "return",
                                    !.msg = "Color scheme changed to {CURRENT_SCHEME}",
                                    !.margs = <<CURRENT_SCHEME'>>]
    /\ UNCHANGED <<frame, menu>>

Next ==
    \/ Call_dec_to_base
    \/ Call_base_to_dec
    \/ Call_dec_to_base_float
    \/ Call_dec_to_bin
    \/ Call_dec_to_oct
    \/ Call_dec_to_hex
    \/ Call_bin_to_dec
    \/ Call_oct_to_dec
    \/ Call_hex_to_dec
    \/ Call_bin_to_oct
    \/ Call_bin_to_hex
    \/ Call_oct_to_bin
    \/ Call_oct_to_hex
    \/ Call_hex_to_bin
    \/ Call_hex_to_oct
    \/ Call_char_to_ascii
    \/ Call_ascii_to_char
    \/ Call_detect_base
    \/ Discard

\* the conversion functions called one after another
Spec == Init /\ [][Next]_vars

\* every entry of the menu: the conversions and the color scheme toggle
NextMenu ==
    \/ Next
    \/ Call_toggle_color_scheme

SpecMenu == Init /\ [][NextMenu]_vars

(***************************************************************************)
(* The loops, one iteration at a time                                      *)
(***************************************************************************)
\* the characters of the numerals given to the stepwise base_to_dec
LoopChars == {"0", "1", "7", "F", "f", "G", "-"}

RECURSIVE LoopStringsOfLen(_)
LoopStringsOfLen(k) ==
    IF k = 0 THEN {<<>>}
    ELSE {Append(s, c) : s \in LoopStringsOfLen(k - 1), c \in LoopChars}

LoopStrings == UNION {LoopStringsOfLen(k) : k \in 0..MaxLen}

\* the bases of the stepwise calls: the ends of the legal range, the first
\* value outside on either side, and 8 and 10
LoopBases == {MIN_BASE - 1, MIN_BASE, 8, 10, MAX_BASE, MAX_BASE + 1}

\* dec_to_base up to its while loop
Enter_dec_to_base ==
    /\ frame.pc = "idle"
    /\ \E n \in Ints, base \in LoopBases, show_steps \in BOOLEAN :
        frame' =
            LET f == [NoFrame EXCEPT !.fn = "dec_to_base", !.n = n, !.base = base,
                                     !.show_steps = show_steps]
            IN  IF n = 0 THEN [f EXCEPT !.pc = "returned", !.result = <<"0">>]
                ELSE IF ~(MIN_BASE <= base /\ base <= MAX_BASE) THEN [f EXCEPT !.pc = "raised"]
                ELSE [f EXCEPT !.pc = "while", !.working_n = abs(n), !.bound = show_steps]
    /\ UNCHANGED <<call, outcome, globals, menu>>

\* dec_to_bin up to its while loop
Enter_dec_to_bin ==
    /\ frame.pc = "idle"
    /\ \E n \in Ints, show_steps \in BOOLEAN :
        frame' =
            LET f == [NoFrame EXCEPT !.fn = "dec_to_bin", !.n = n, !.base = 2,
                                     !.show_steps = show_steps]
            IN  IF n = 0 THEN [f EXCEPT !.pc = "returned", !.result = <<"0">>]
                ELSE [f EXCEPT !.pc = "while",
                               !.working_n = IF n < 0 THEN twos_complement(n) ELSE n,
                               !.bound = show_steps]
    /\ UNCHANGED <<call, outcome, globals, menu>>

\* dec_to_oct up to its while loop
Enter_dec_to_oct ==
    /\ frame.pc = "idle"
    /\ \E n \in Ints, show_steps \in BOOLEAN :
        frame' =
            LET f == [NoFrame EXCEPT !.fn = "dec_to_oct", !.n = n, !.base = 8,
                                     !.show_steps = show_steps]
            IN  IF n = 0 THEN [f EXCEPT !.pc = "returned", !.result = <<"0">>]
                ELSE [f EXCEPT !.pc = "while", !.working_n = abs(n), !.bound = show_steps]
    /\ UNCHANGED <<call, outcome, globals, menu>>

\* dec_to_hex up to its while loop
Enter_dec_to_hex ==
    /\ frame.pc = "idle"
    /\ \E n \in Ints, show_steps \in BOOLEAN :
        frame' =
            LET f == [NoFrame EXCEPT !.fn = "dec_to_hex", !.n = n, !.base = 16,
                                     !.show_steps = show_steps]
            IN  IF n = 0 THEN [f EXCEPT !.pc = "returned", !.result = <<"0">>]
                ELSE [f EXCEPT !.pc = "while", !.working_n = abs(n), !.bound = show_steps]
    /\ UNCHANGED <<call, outcome, globals, menu>>

\* one pass through the body of "while working_n:" of the four functions;
\* its last statement reads step_num
Iterate_while ==
    /\ frame.pc = "while"
    /\ frame.working_n # 0
    /\ frame' =
           LET remainder == CASE frame.fn = "dec_to_base" -> frame.working_n % frame.base
                              [] frame.fn = "dec_to_bin" -> bin_remainder(frame.working_n)
                              [] frame.fn = "dec_to_oct" -> oct_remainder(frame.working_n)
                              [] frame.fn = "dec_to_hex" -> hex_remainder(frame.working_n)
               digit == CASE frame.fn = "dec_to_base" -> BASE_DIGITS[remainder + 1]
                          [] frame.fn = "dec_to_hex" -> HEX_DIGITS[remainder + 1]
                          [] OTHER -> str_digit(remainder)
               shifted == CASE frame.fn = "dec_to_base" -> frame.working_n \div frame.base
                            [] frame.fn = "dec_to_bin" -> ShiftRight(frame.working_n, 1)
                            [] frame.fn = "dec_to_oct" -> ShiftRight(frame.working_n, 3)
                            [] frame.fn = "dec_to_hex" -> ShiftRight(frame.working_n, 4)
           IN  [frame EXCEPT !.digits = Append(frame.digits, digit),
                             !.working_n = shifted,
                             !.iterations = frame.iterations + 1,
                             !.pc = IF frame.bound THEN "while" ELSE "raised"]
    /\ UNCHANGED <<call, outcome, globals, menu>>

\* the while loop is left and the numeral is put together
Exit_while ==
    /\ frame.pc = "while"
    /\ frame.working_n = 0
    /\ frame' = [frame EXCEPT !.pc = "returned",
                              !.result = (IF frame.n < 0 THEN <<"-">> ELSE <<>>)
                                             \o reversed(frame.digits)]
    /\ UNCHANGED <<call, outcome, globals, menu>>

\* base_to_dec up to its for loop
Enter_base_to_dec ==
    /\ frame.pc = "idle"
    /\ \E original_str \in LoopStrings, base \in LoopBases, show_steps \in BOOLEAN :
        frame' =
            LET f == [NoFrame EXCEPT !.fn = "base_to_dec", !.s = original_str, !.base = base,
                                     !.show_steps = show_steps]
                number_str == IF startswith_minus(original_str) THEN tail1(original_str)
                              ELSE original_str
            IN  IF ~(MIN_BASE <= base /\ base <= MAX_BASE) THEN [f EXCEPT !.pc = "raised"]
                ELSE IF ~fullmatch_class_plus(valid_chars(base), upper(number_str))
                THEN [f EXCEPT !.pc = "raised"]
                ELSE [f EXCEPT !.pc = "for", !.todo = reversed(upper(number_str))]
    /\ UNCHANGED <<call, outcome, globals, menu>>

\* one pass through the body of "for i, digit in enumerate(...)"
Iterate_for ==
    /\ frame.pc = "for"
    /\ frame.todo # <<>>
    /\ frame' =
           LET digit_value == index(BASE_DIGITS, Head(frame.todo))
           IN  [frame EXCEPT !.decimal_value =
                                 frame.decimal_value
                                     + position_value(digit_value, frame.base, frame.iterations),
                             !.todo = Tail(frame.todo),
                             !.iterations = frame.iterations + 1]
    /\ UNCHANGED <<call, outcome, globals, menu>>

\* the for loop is exhausted and the sign is put back
Exit_for ==
    /\ frame.pc = "for"
    /\ frame.todo = <<>>
    /\ frame' = [frame EXCEPT !.pc = "returned",
                              !.decimal_value = IF startswith_minus(frame.s)
                                                THEN 0 - frame.decimal_value
                                                ELSE frame.decimal_value]
    /\ UNCHANGED <<call, outcome, globals, menu>>

\* dec_to_base_float up to its for loop; the integer part is converted by a
\* complete untraced call of dec_to_base
Enter_dec_to_base_float ==
    /\ frame.pc = "idle"
    /\ \E decimal \in Floats, base \in LoopBases, precision \in Precisions,
          show_steps \in BOOLEAN :
        frame' =
            LET f == [NoFrame EXCEPT !.fn = "dec_to_base_float", !.n = decimal.num,
                                     !.base = base, !.precision = precision,
                                     !.show_steps = show_steps]
                int_part == abs(decimal.num) \div FracDen
                int_call == dec_to_base(int_part, base, FALSE)
            IN  IF decimal.cls = "finite" /\ decimal.num = 0
                THEN [f EXCEPT !.pc = "returned", !.result = <<"0", ".", "0">>]
                ELSE IF ~(MIN_BASE <= base /\ base <= MAX_BASE) THEN [f EXCEPT !.pc = "raised"]
                ELSE IF decimal.cls # "finite" THEN [f EXCEPT !.pc = "raised"]
                ELSE IF int_call.kind = "raise" THEN [f EXCEPT !.pc = "raised"]
                ELSE [f EXCEPT !.pc = "range", !.left = precision,
                               !.working_n = abs(decimal.num) - int_part * FracDen,
                               !.result = int_call.numeral]
    /\ UNCHANGED <<call, outcome, globals, menu>>

\* one pass through the body of "for _ in range(precision)", its break included
Iterate_range ==
    /\ frame.pc = "range"
    /\ ~frame.broke
    /\ frame.left > 0
    /\ frame' =
           LET multiplied == frame.working_n * frame.base
               int_digit == multiplied \div FracDen
               working_frac == multiplied - int_digit * FracDen
           IN  [frame EXCEPT !.digits = Append(frame.digits, BASE_DIGITS[int_digit + 1]),
                             !.working_n = working_frac,
                             !.left = frame.left - 1,
                             !.iterations = frame.iterations + 1,
                             !.broke = (working_frac = 0)]
    /\ UNCHANGED <<call, outcome, globals, menu>>

\* the for loop is exhausted or broken out of, and the parts are combined
Exit_range ==
    /\ frame.pc = "range"
    /\ (frame.broke \/ frame.left <= 0)
    /\ frame' = [frame EXCEPT !.pc = "returned",
                              !.result = (IF frame.n < 0 THEN <<"-">> ELSE <<>>)
                                             \o frame.result
                                             \o (IF frame.digits # <<>>
                                                 THEN <<".">> \o frame.digits ELSE <<>>)]
    /\ UNCHANGED <<call, outcome, globals, menu>>

\* the call is over and its locals are gone
Leave ==
    /\ frame.pc \in {"returned", "raised"}
    /\ frame' = NoFrame
    /\ UNCHANGED <<call, outcome, globals, menu>>

NextLoop ==
    \/ Enter_dec_to_base
    \/ Enter_dec_to_bin
    \/ Enter_dec_to_oct
    \/ Enter_dec_to_hex
    \/ Iterate_while
    \/ Exit_while
    \/ Enter_base_to_dec
    \/ Iterate_for
    \/ Exit_for
    \/ Enter_dec_to_base_float
    \/ Iterate_range
    \/ Exit_range
    \/ Leave

\* a call that has started keeps taking steps: nothing outside it can stop it
SpecLoop == Init /\ [][NextLoop]_vars /\ WF_vars(NextLoop)

(***************************************************************************)
(* main() and the loop of menu(), one statement group at a time            *)
(***************************************************************************)
\* the classes of an exception, itself included (its method resolution
\* order), for the exceptions that occur in the program
mro(exc) ==
    CASE exc = "ValueError" -> {"ValueError", "Exception", "BaseException"}
      [] exc = "UnicodeEncodeError" ->
             {"UnicodeEncodeError", "UnicodeError", "ValueError", "Exception", "BaseException"}
      [] exc = "UnboundLocalError" ->
             {"UnboundLocalError", "NameError", "Exception", "BaseException"}
      [] exc = "OverflowError" ->
             {"OverflowError", "ArithmeticError", "Exception", "BaseException"}
      [] exc = "EOFError" -> {"EOFError", "Exception", "BaseException"}
      [] exc = "KeyboardInterrupt" -> {"KeyboardInterrupt", "BaseException"}
      [] exc = "SystemExit" -> {"SystemExit", "BaseException"}

\* an except clause that catches the named class only, not its subclasses
except_matches_exactly(exc, cls) == exc = cls

\* "except cls" catches exc: exc is cls or a subclass of it
except_matches(exc, cls) == cls \in mro(exc)

\* str.isdigit(): non-empty and digits only; a superscript digit counts
\* ("^2" stands for the one character SUPERSCRIPT TWO)
isdigit(s) ==
    Len(s) >= 1 /\ \A i \in 1..Len(s) : s[i] \in {"0","1","2","3","4","5","6","7","8","9","^2"}

\* the value of a string of ASCII decimal digits, most significant first
RECURSIVE int_of_digits(_)
int_of_digits(digits) ==
    IF digits = <<>> THEN 0
    ELSE int_of_digits(SubSeq(digits, 1, Len(digits) - 1)) * 10
             + int_of_digit(digits[Len(digits)])

\* int(line): blanks around, an optional sign, then decimal digits; ok is
\* FALSE where int raises ValueError
int(line) ==
    LET t == strip(line)
        signed == Len(t) >= 1 /\ t[1] \in {"+", "-"}
        body == IF signed THEN tail1(t) ELSE t
    IN  IF fullmatch_class_plus(DecClass, body)
        THEN [ok |-> TRUE,
              value |-> IF startswith_minus(t) THEN 0 - int_of_digits(body)
                        ELSE int_of_digits(body)]
        ELSE [ok |-> FALSE, value |-> 0]

\* float(line): blanks around, an optional sign, then "inf", "infinity",
\* "nan" in any case, or decimal digits with at most one point and a digit on
\* one side of it at least; ok is FALSE where float raises ValueError.  The
\* value is a multiple of 2^-FracBits, as the fractions typed in the model are.
float(line) ==
    LET t == lower(strip(line))
        signed == Len(t) >= 1 /\ t[1] \in {"+", "-"}
        negative == startswith_minus(t)
        body == IF signed THEN tail1(t) ELSE t
        points == {i \in 1..Len(body) : body[i] = "."}
        point == IF points = {} THEN Len(body) + 1 ELSE CHOOSE i \in points : TRUE
        whole == SubSeq(body, 1, point - 1)
        fraction == SubSeq(body, point + 1, Len(body))
        all_digits(d) == \A i \in 1..Len(d) : \E j \in 1..Len(DecClass) : DecClass[j] = d[i]
        num == int_of_digits(whole) * FracDen
                   + (int_of_digits(fraction) * FracDen) \div (10 ^ Len(fraction))
    IN  IF body \in {<<"i","n","f">>, <<"i","n","f","i","n","i","t","y">>}
        THEN [ok |-> TRUE, x |-> [cls |-> "inf", num |-> IF negative THEN 0 - 1 ELSE 1]]
        ELSE IF body = <<"n","a","n">>
        THEN [ok |-> TRUE, x |-> [cls |-> "nan", num |-> 0]]
        ELSE IF /\ Cardinality(points) <= 1
                /\ Len(whole) + Len(fraction) >= 1
                /\ all_digits(whole)
                /\ all_digits(fraction)
        THEN [ok |-> TRUE, x |-> Finite(IF negative THEN 0 - num ELSE num)]
        ELSE [ok |-> FALSE, x |-> Finite(0)]

\* str(k) for k >= 0
RECURSIVE str(_)
str(k) == IF k < 10 THEN <<str_digit(k)>> ELSE Append(str(k \div 10), str_digit(k % 10))

\* the code point of a character typed at "Enter character: "
code_point_of(c) ==
    CASE c = " " -> 32 [] c = "-" -> 45 [] c = "0" -> 48 [] c = "1" -> 49
      [] c = "7" -> 55 [] c = "A" -> 65 [] c = "b" -> 98

\* a typed line as the str the character functions take
code_points(line) == [i \in 1..Len(line) |-> code_point_of(line[i])]

\* the characters of the lines typed at every prompt: digits, the sign and
\* a blank
LineChars == {"0", "1", "7", "-", " "}

RECURSIVE LinesOfLen(_)
LinesOfLen(k) ==
    IF k = 0 THEN {<<>>}
    ELSE {Append(s, c) : s \in LinesOfLen(k - 1), c \in LineChars}

\* every line of at most MaxLineLen of these characters
ShortLines == UNION {LinesOfLen(k) : k \in 0..MaxLineLen}

\* at "Select an option (1-20): " also: every number from 0 to 21, a padded
\* and a zero-led 20, a letter and a superscript two
ChoiceLines ==
    ShortLines \cup {str(k) : k \in 0..21}
        \cup {<<" ", "2", "0", " ">>, <<"0", "2", "0">>, <<"x">>, <<"^2">>}

\* at "Enter decimal number: " and at the prompts for a base also: bases at
\* and past both ends of 2..16, a signed number, a byte and a letter
IntLines ==
    ShortLines \cup {<<"2">>, <<"1", "6">>, <<"1", "7">>, <<"+", "5">>, <<"2", "5", "5">>,
                     <<"x">>}

\* at "Enter ASCII code: " also: the code points of 'A' and of the first
\* surrogate, and a letter
CodeLines == ShortLines \cup {<<"6", "5">>, <<"5", "5", "2", "9", "6">>, <<"x">>}

\* at the prompts for a numeral also: hex numerals in both cases, a digit
\* that is neither binary nor octal, and a prefixed literal
NumeralLines ==
    ShortLines \cup {<<"f", "f">>, <<"-", "1", "F">>, <<"8">>, <<"0", "x", "1", "F">>}

\* at "Enter decimal float: " also: fractions, the specials and two lines
\* float() rejects
FloatLines ==
    ShortLines \cup {<<"0", ".", "5">>, <<"1", ".", "5">>, <<"-", "2", ".", "5">>, <<".", "5">>,
                     <<"i", "n", "f">>, <<"N", "a", "N">>, <<"x">>, <<"1", ".", "5", ".">>}

\* at "Enter character: " also: a letter and two letters
CharLines == ShortLines \cup {<<"A">>, <<"A", "b">>}

\* at "Would you like to perform another conversion? (y/n): " also
AnswerLines ==
    ShortLines \cup {<<"y">>, <<"Y">>, <<" ", "y", " ">>, <<"n">>, <<"y", "e", "s">>}

\* the function each entry of CONVERSIONS calls, by menu option
CONVERSIONS ==
    <<"dec_to_bin", "bin_to_dec", "dec_to_oct", "oct_to_dec", "dec_to_hex", "hex_to_dec",
      "bin_to_oct", "oct_to_bin", "bin_to_hex", "hex_to_bin", "oct_to_hex", "hex_to_oct",
      "dec_to_base", "base_to_dec", "dec_to_base_float", "ascii_to_char", "char_to_ascii",
      "detect_base", "toggle_color_scheme">>

Reader(read, into) == [read |-> read, into |-> into]

\* the inputs an option reads, in order: how each is read and the argument
\* it becomes.  The traced branch and the entry of CONVERSIONS read the same
\* inputs the same way.
Readers(option_num) ==
    CASE option_num \in {1, 3, 5, 16} -> <<Reader("read_int", "n")>>
      [] option_num \in {2, 7, 9} -> <<Reader("read_bin", "s")>>
      [] option_num \in {4, 8, 11} -> <<Reader("read_oct", "s")>>
      [] option_num \in {6, 10, 12} -> <<Reader("read_hex", "s")>>
      [] option_num = 13 -> <<Reader("read_int", "n"), Reader("read_int", "base")>>
      [] option_num = 14 -> <<Reader("input", "s"), Reader("read_int", "base")>>
      [] option_num = 15 -> <<Reader("float", "x"), Reader("read_int", "base")>>
      [] option_num = 17 -> <<Reader("input", "char")>>
      [] option_num = 18 -> <<Reader("input", "s")>>
      [] option_num = 19 -> <<>>

\* the input the menu is about to read
NextReader == Readers(menu.option_num)[menu.reads + 1]

\* the value v has been read for NextReader: it is kept and the next input,
\* or the conversion, comes
Store(v) ==
    [menu EXCEPT ![NextReader.into] = v,
                 !.reads = menu.reads + 1,
                 !.pc = IF menu.reads + 1 = Len(Readers(menu.option_num))
                        THEN "convert" ELSE "read"]

\* the statements of menu() inside the inner try (lines 1173-1249)
InInnerTry(m) == m.pc \in {"read", "convert", "display"} /\ ~m.simplified

\* Where exc, raised at the statement menu() is at with the locals m, goes: to the inner
\* "except Exception" (line 1251) from inside the inner try, else to the
\* outer "except ValueError" (line 1264) or "except Exception" (line 1266),
\* else out of menu() into main(), which catches KeyboardInterrupt and exits;
\* any other exception leaves main() and ends the program too.
Propagate(m, exc) ==
    IF InInnerTry(m) /\ except_matches(exc, "Exception")
    THEN [m EXCEPT !.pc = "except", !.exc = exc, !.handler = "inner"]
    ELSE IF except_matches(exc, "ValueError")
    THEN [m EXCEPT !.pc = "outer", !.exc = exc, !.handler = "ValueError"]
    ELSE IF except_matches(exc, "Exception")
    THEN [m EXCEPT !.pc = "outer", !.exc = exc, !.handler = "Exception"]
    ELSE [NoMenu EXCEPT !.pc = "exited", !.exit = exc, !.exit_at = m.pc,
                        !.choice = m.choice,
                        !.handler = IF except_matches(exc, "KeyboardInterrupt")
                                    THEN "main" ELSE ""]

\* the call an option makes with the inputs read, traced or not
EntryCall(show_steps) ==
    [fn |-> CONVERSIONS[menu.option_num], n |-> menu.n, base |-> menu.base, s |-> menu.s,
     x |-> menu.x,
     precision |-> IF menu.option_num = 15 THEN DEFAULT_PRECISION ELSE 0,
     chars |-> menu.char,
     show_steps |-> show_steps /\ menu.option_num \notin {18, 19}]

\* what the function named in the call c does with the arguments in c
invoke(c) ==
    CASE c.fn = "dec_to_base" -> dec_to_base(c.n, c.base, c.show_steps)
      [] c.fn = "base_to_dec" -> base_to_dec(c.s, c.base, c.show_steps)
      [] c.fn = "dec_to_base_float" ->
             dec_to_base_float(c.x, c.base, c.precision, c.show_steps)
      [] c.fn = "dec_to_bin" -> dec_to_bin(c.n, c.show_steps)
      [] c.fn = "dec_to_oct" -> dec_to_oct(c.n, c.show_steps)
      [] c.fn = "dec_to_hex" -> dec_to_hex(c.n, c.show_steps)
      [] c.fn = "bin_to_dec" -> bin_to_dec(c.s, c.show_steps)
      [] c.fn = "oct_to_dec" -> oct_to_dec(c.s, c.show_steps)
      [] c.fn = "hex_to_dec" -> hex_to_dec(c.s, c.show_steps)
      [] c.fn = "bin_to_oct" -> bin_to_oct(c.s, c.show_steps)
      [] c.fn = "bin_to_hex" -> bin_to_hex(c.s, c.show_steps)
      [] c.fn = "oct_to_bin" -> oct_to_bin(c.s, c.show_steps)
      [] c.fn = "oct_to_hex" -> oct_to_hex(c.s, c.show_steps)
      [] c.fn = "hex_to_bin" -> hex_to_bin(c.s, c.show_steps)
      [] c.fn = "hex_to_oct" -> hex_to_oct(c.s, c.show_steps)
      [] c.fn = "char_to_ascii" -> char_to_ascii(c.chars, c.show_steps)
      [] c.fn = "ascii_to_char" -> ascii_to_char(c.n, c.show_steps)
      [] c.fn = "detect_base" -> ReturnInt(detect_base(c.s), <<>>, FALSE)
      [] c.fn = "toggle_color_scheme" ->
             [NoOutcome EXCEPT !.kind = "return",
                               !.msg = "Color scheme changed to {CURRENT_SCHEME}",
                               !.margs = <<toggled(CURRENT_SCHEME)>>]

\* whether printing the result can raise UnicodeEncodeError: never for a
\* result without surrogates (code points 55296..57343); for one with a
\* surrogate it depends on the error handler of stdout
PrintRaises(o) ==
    IF \E i \in 1..Len(o.chars) : o.chars[i] \in 55296..57343 THEN BOOLEAN ELSE {FALSE}

\* main() calls menu(), which prints the header and the menu
Menu_start ==
    /\ menu.pc = "off"
    /\ menu' = [NoMenu EXCEPT !.pc = "choice"]
    /\ UNCHANGED <<call, outcome, globals, frame>>

\* choice = input(...).strip(): "20" exits, a choice that is not a key of
\* CONVERSIONS prints "Invalid choice" and continues, any other selects its
\* option
Menu_choice ==
    /\ menu.pc = "choice"
    /\ \E line \in ChoiceLines :
        LET choice == strip(line)
            again == [NoMenu EXCEPT !.pc = "choice"]
        IN  menu' =
                IF choice = <<"2", "0">>
                THEN Propagate([menu EXCEPT !.choice = choice], "SystemExit")
                ELSE IF ~isdigit(choice) THEN again
                ELSE IF ~int(choice).ok
                THEN Propagate([menu EXCEPT !.choice = choice], "ValueError")
                ELSE IF int(choice).value \notin DOMAIN CONVERSIONS THEN again
                ELSE [again EXCEPT !.choice = choice,
                                   !.option_num = int(choice).value,
                                   !.pc = IF Readers(int(choice).value) = <<>>
                                          THEN "convert" ELSE "read"]
    /\ UNCHANGED <<call, outcome, globals, frame>>

\* read_int: a line int() rejects prints a message and is asked again
Menu_read_int ==
    /\ menu.pc = "read"
    /\ NextReader.read = "read_int"
    /\ \E line \in (IF menu.option_num = 16 THEN CodeLines ELSE IntLines) :
        menu' = IF int(line).ok THEN Store(int(line).value) ELSE menu
    /\ UNCHANGED <<call, outcome, globals, frame>>

\* read_bin, read_oct, read_hex through read_number: the stripped line is
\* returned when the validator accepts it (in capitals by read_hex), else a
\* message is printed and the line asked again
Menu_read_number ==
    /\ menu.pc = "read"
    /\ NextReader.read \in {"read_bin", "read_oct", "read_hex"}
    /\ \E line \in NumeralLines :
        LET s == strip(line)
            class == CASE NextReader.read = "read_bin" -> BinClass
                       [] NextReader.read = "read_oct" -> OctClass
                       [] NextReader.read = "read_hex" -> HexAnyCaseClass
        IN  menu' = IF fullmatch_opt_minus_class_plus(class, s)
                    THEN Store(IF NextReader.read = "read_hex" THEN upper(s) ELSE s)
                    ELSE menu
    /\ UNCHANGED <<call, outcome, globals, frame>>

\* input(...) taken as it is: the number of options 14 and 18, the
\* character of option 17
Menu_input ==
    /\ menu.pc = "read"
    /\ NextReader.read = "input"
    /\ \/ /\ NextReader.into = "s"
          /\ \E line \in NumeralLines : menu' = Store(line)
       \/ /\ NextReader.into = "char"
          /\ \E line \in CharLines : menu' = Store(code_points(line))
    /\ UNCHANGED <<call, outcome, globals, frame>>

\* float(input("Enter decimal float: ")): a ValueError is not caught here
Menu_input_float ==
    /\ menu.pc = "read"
    /\ NextReader.read = "float"
    /\ \E line \in FloatLines :
        menu' = IF float(line).ok THEN Store(float(line).x) ELSE Propagate(menu, "ValueError")
    /\ UNCHANGED <<call, outcome, globals, frame>>

\* The conversion is called with the inputs read: by the branch of the
\* option in the inner try with show_steps=True (detect_base and
\* toggle_color_scheme take no show_steps), by conversion_func() in the
\* except block, the entry of CONVERSIONS, without show_steps.
Menu_convert ==
    /\ menu.pc = "convert"
    /\ call' = EntryCall(~menu.simplified)
    /\ outcome' = invoke(call')
    /\ CURRENT_SCHEME' = IF call'.fn = "toggle_color_scheme" THEN toggled(CURRENT_SCHEME)
                         ELSE CURRENT_SCHEME
    /\ colors' = Colors(CURRENT_SCHEME')
    /\ menu' = IF outcome'.kind = "raise" THEN Propagate(menu, outcome'.exc)
               ELSE [menu EXCEPT !.pc = "display"]
    /\ UNCHANGED frame

\* the result is printed, by the traced branch with its steps, by the except
\* block alone, and nothing of the call is kept
Display ==
    /\ \E raises \in PrintRaises(outcome) :
        menu' = IF raises THEN Propagate(menu, "UnicodeEncodeError")
                ELSE [menu EXCEPT !.pc = "another"]
    /\ call' = Call("none", 0, 0, <<>>, FALSE)
    /\ outcome' = NoOutcome
    /\ UNCHANGED <<globals, frame>>

Menu_display_traced ==
    /\ menu.pc = "display"
    /\ ~menu.simplified
    /\ Display

Menu_display_simplified ==
    /\ menu.pc = "display"
    /\ menu.simplified
    /\ Display

\* the inner "except Exception": the error is printed, then "Using
\* simplified conversion..." and conversion_func() starts, which reads the
\* inputs of the option again
Menu_except ==
    /\ menu.pc = "except"
    /\ menu' = [NoMenu EXCEPT !.pc = IF Readers(menu.option_num) = <<>>
                                     THEN "convert" ELSE "read",
                              !.choice = menu.choice,
                              !.option_num = menu.option_num,
                              !.simplified = TRUE]
    /\ call' = Call("none", 0, 0, <<>>, FALSE)
    /\ outcome' = NoOutcome
    /\ UNCHANGED <<globals, frame>>

\* the outer "except ValueError" and "except Exception": the error is
\* printed and the loop goes round, to the menu
Menu_outer ==
    /\ menu.pc = "outer"
    /\ menu' = [NoMenu EXCEPT !.pc = "choice"]
    /\ call' = Call("none", 0, 0, <<>>, FALSE)
    /\ outcome' = NoOutcome
    /\ UNCHANGED <<globals, frame>>

\* another = input(...).lower().strip(): anything but 'y' exits
Menu_another ==
    /\ menu.pc = "another"
    /\ \E line \in AnswerLines :
        menu' = IF strip(lower(line)) # <<"y">> THEN Propagate(menu, "SystemExit")
                ELSE [NoMenu EXCEPT !.pc = "choice"]
    /\ UNCHANGED <<call, outcome, globals, frame>>

\* Ctrl-C while input() waits
Menu_interrupt ==
    /\ menu.pc \in {"choice", "read", "another"}
    /\ menu' = Propagate(menu, "KeyboardInterrupt")
    /\ UNCHANGED <<call, outcome, globals, frame>>

\* end of input while input() waits
Menu_eof ==
    /\ menu.pc \in {"choice", "read", "another"}
    /\ menu' = Propagate(menu, "EOFError")
    /\ UNCHANGED <<call, outcome, globals, frame>>

NextMain ==
    \/ Menu_start
    \/ Menu_choice
    \/ Menu_read_int
    \/ Menu_read_number
    \/ Menu_input
    \/ Menu_input_float
    \/ Menu_convert
    \/ Menu_display_traced
    \/ Menu_except
    \/ Menu_display_simplified
    \/ Menu_another
    \/ Menu_outer
    \/ Menu_interrupt
    \/ Menu_eof

\* the program run from main(): the user's lines at the prompts of menu()
SpecMain == Init /\ [][NextMain]_vars

(***************************************************************************)
(* Reference notions the properties are stated with.  They are written     *)
(* from the statements, independently of the operators above.              *)
(***************************************************************************)
RefDigitChars == <<"0","1","2","3","4","5","6","7","8","9","A","B","C","D","E","F">>
RefLowerChars == <<"0","1","2","3","4","5","6","7","8","9","a","b","c","d","e","f">>

ValidBase(b) == b \in 2..16

\* the most-significant-first digits of v > 0 in base b (empty for v = 0)
RECURSIVE RefDigits(_, _)
RefDigits(v, b) ==
    IF v = 0 THEN <<>> ELSE Append(RefDigits(v \div b, b), RefDigitChars[(v % b) + 1])

\* the numeral of n in base b: sign, then magnitude; "0" for zero
RefToBase(n, b) ==
    IF n = 0 THEN <<"0">>
    ELSE (IF n < 0 THEN <<"-">> ELSE <<>>) \o RefDigits(IF n < 0 THEN 0 - n ELSE n, b)

\* c is, in either case, one of the first b digit characters
RefLegalDigit(c, b) ==
    \E d \in 1..b : c = RefDigitChars[d] \/ c = RefLowerChars[d]

\* the value of a legal digit character
RefDigitValue(c) ==
    (CHOOSE d \in 1..16 : c = RefDigitChars[d] \/ c = RefLowerChars[d]) - 1

RefHasSign(s) == s # <<>> /\ Head(s) = "-"

\* s without its leading '-', if it has one
RefBody(s) == IF RefHasSign(s) THEN Tail(s) ELSE s

\* s is a Numeral of base b: a non-empty body of legal digits after at most one '-'
RefValidNumeral(s, b) ==
    /\ RefBody(s) # <<>>
    /\ \A i \in 1..Len(RefBody(s)) : RefLegalDigit(RefBody(s)[i], b)

\* value = value*b + digitValue over the first k digits, most significant first
RECURSIVE RefHorner(_, _, _)
RefHorner(body, b, k) ==
    IF k = 0 THEN 0 ELSE RefHorner(body, b, k - 1) * b + RefDigitValue(body[k])

\* the integer a valid numeral denotes
RefValue(s, b) ==
    IF RefHasSign(s) THEN 0 - RefHorner(RefBody(s), b, Len(RefBody(s)))
    ELSE RefHorner(RefBody(s), b, Len(RefBody(s)))

\* bitlength(m) for m >= 0: the least k with m < 2^k
RefBitLength(m) == CHOOSE k \in 0..30 : m < 2 ^ k /\ (k = 0 \/ 2 ^ (k - 1) <= m)

\* the canonical form of a valid numeral: capitals, no leading zeros, and
\* "0" for every spelling of zero
RefCanonical(s, b) == RefToBase(RefValue(s, b), b)

IsInvalidBaseError(o) ==
    /\ o.kind = "raise"
    /\ o.exc = "ValueError"
    /\ o.msg = "Base must be between {MIN_BASE} and {MAX_BASE}"

IsInvalidNumeralError(o, b) ==
    /\ o.kind = "raise"
    /\ o.exc = "ValueError"
    /\ o.msg = "Invalid number for base {base}"
    /\ o.margs = <<b>>

CrossFunctions ==
    {"bin_to_oct", "bin_to_hex", "oct_to_bin", "oct_to_hex", "hex_to_bin", "hex_to_oct"}

\* the source and the target base of a named cross-base function
FromBase(fn) ==
    CASE fn \in {"bin_to_oct", "bin_to_hex"} -> 2
      [] fn \in {"oct_to_bin", "oct_to_hex"} -> 8
      [] fn \in {"hex_to_bin", "hex_to_oct"} -> 16

ToBase(fn) ==
    CASE fn \in {"oct_to_bin", "hex_to_bin"} -> 2
      [] fn \in {"bin_to_oct", "hex_to_oct"} -> 8
      [] fn \in {"bin_to_hex", "oct_to_hex"} -> 16

\* the named cross-base function from base b1 to base b2, traced
CrossTraced(b1, b2, s) ==
    CASE b1 = 2 /\ b2 = 8 -> bin_to_oct(s, TRUE)
      [] b1 = 2 /\ b2 = 16 -> bin_to_hex(s, TRUE)
      [] b1 = 8 /\ b2 = 2 -> oct_to_bin(s, TRUE)
      [] b1 = 8 /\ b2 = 16 -> oct_to_hex(s, TRUE)
      [] b1 = 16 /\ b2 = 2 -> hex_to_bin(s, TRUE)
      [] b1 = 16 /\ b2 = 8 -> hex_to_oct(s, TRUE)

(***************************************************************************)
(* Properties                                                              *)
(***************************************************************************)

\* C1: for every integer n and base b in 2..16, dec_to_base(n, b) in its
\* default form (show_steps=False) returns the numeral of n in base b built
\* by repeated mod/div on |n|, digits 0-9,A-F most significant first, '-'
\* prepended iff n < 0, and "0" for n = 0.
C1_DefaultFormReturnsNumeral ==
    (call.fn = "dec_to_base" /\ ValidBase(call.base) /\ ~call.show_steps)
        => /\ outcome.kind = "return"
           /\ outcome.numeral = RefToBase(call.n, call.base)

\* C2: round trip: for every base b in 2..16 and every integer n,
\* base_to_dec(dec_to_base(n, b), b) == n, both calls in their default form.
C2_RoundTrip ==
    (call.fn = "dec_to_base" /\ ValidBase(call.base) /\ ~call.show_steps)
        => /\ outcome.kind = "return"
           /\ LET back == base_to_dec(outcome.numeral, call.base, FALSE)
              IN  back.kind = "return" /\ back.value = call.n

\* C3: for every base b in 2..16 and every valid base-b numeral s,
\* base_to_dec(s, b), which sums digitValue * b^position from the least
\* significant digit, returns the value obtained by value = value*b +
\* digitValue from the most significant digit, negated under a leading '-'.
C3_PositionalSumEqualsHorner ==
    (call.fn = "base_to_dec" /\ ValidBase(call.base) /\ RefValidNumeral(call.s, call.base))
        => /\ outcome.kind = "return"
           /\ outcome.value = RefValue(call.s, call.base)

\* C3 witness: base_to_dec("FF", 16) has returned 255.
C3_Witness ==
    /\ call.fn = "base_to_dec"
    /\ call.s = <<"F", "F">>
    /\ call.base = 16
    /\ outcome.kind = "return"
    /\ outcome.value = 255

C5_InvalidBaseRejected ==
    (call.fn \in {"dec_to_base", "base_to_dec", "dec_to_base_float"} /\ ~ValidBase(call.base))
        => IsInvalidBaseError(outcome)

\* C6: for every nonnegative n, dec_to_bin(n), dec_to_oct(n) and
\* dec_to_hex(n) return the same numeral as dec_to_base(n, 2),
\* dec_to_base(n, 8) and dec_to_base(n, 16), all called with show_steps=True.
C6_WrappersMatchGeneric ==
    (call.fn \in {"dec_to_bin", "dec_to_oct", "dec_to_hex"} /\ call.n >= 0 /\ call.show_steps)
        => LET b == CASE call.fn = "dec_to_bin" -> 2
                      [] call.fn = "dec_to_oct" -> 8
                      [] call.fn = "dec_to_hex" -> 16
               generic == dec_to_base(call.n, b, TRUE)
           IN  /\ outcome.kind = "return"
               /\ generic.kind = "return"
               /\ outcome.numeral = generic.numeral

\* C6 witness: dec_to_hex(255, show_steps=True) has returned "FF".
C6_Witness ==
    /\ call.fn = "dec_to_hex"
    /\ call.n = 255
    /\ call.show_steps
    /\ outcome.kind = "return"
    /\ outcome.numeral = <<"F", "F">>

\* C7: for every negative n, dec_to_bin(n, show_steps=True) returns '-'
\* followed by the binary digits of (1 << (bitlength(|n|)+1)) + n, and not
\* '-' followed by the binary digits of |n|.
C7_NegativeBinaryIsSignedTwosComplement ==
    (call.fn = "dec_to_bin" /\ call.n < 0 /\ call.show_steps)
        => /\ outcome.kind = "return"
           /\ outcome.numeral =
                  <<"-">> \o RefDigits(2 ^ (RefBitLength(0 - call.n) + 1) + call.n, 2)
           /\ outcome.numeral # <<"-">> \o RefDigits(0 - call.n, 2)

\* C7 witness: dec_to_bin(-5, show_steps=True) has returned "-1011".
C7_Witness ==
    /\ call.fn = "dec_to_bin"
    /\ call.n = 0 - 5
    /\ call.show_steps
    /\ outcome.kind = "return"
    /\ outcome.numeral = <<"-", "1", "0", "1", "1">>

\* C8: each of the six named cross-base functions, on every valid source
\* numeral s (negative ones included), returns the numeral
\* dec_to_base(base_to_dec(s, fromBase), toBase) of the two generic
\* converters, all called with show_steps=True.
C8_CrossEqualsGeneric ==
    (call.fn \in CrossFunctions /\ call.show_steps
        /\ RefValidNumeral(call.s, FromBase(call.fn)))
        => LET parsed == base_to_dec(call.s, FromBase(call.fn), TRUE)
               generic == dec_to_base(parsed.value, ToBase(call.fn), TRUE)
           IN  /\ outcome.kind = "return"
               /\ parsed.kind = "return"
               /\ generic.kind = "return"
               /\ outcome.numeral = generic.numeral

\* C9: bridge round trip: for distinct b1, b2 in {2, 8, 16} and every valid
\* base-b1 numeral s, converting s from b1 to b2 and the result back from b2
\* to b1 with the named cross-base functions (show_steps=True) returns s in
\* canonical form.
C9_BridgeRoundTrip ==
    (call.fn \in CrossFunctions /\ call.show_steps
        /\ RefValidNumeral(call.s, FromBase(call.fn)))
        => /\ outcome.kind = "return"
           /\ LET back == CrossTraced(ToBase(call.fn), FromBase(call.fn), outcome.numeral)
              IN  /\ back.kind = "return"
                  /\ back.numeral = RefCanonical(call.s, FromBase(call.fn))

\* C10: every call of a core conversion function, with either value of
\* show_steps, either returns a result or raises one of the taxonomy errors
\* (all ValueError in this code); it fails in no other way.
C10_ReturnOrTaxonomyError ==
    (call.fn # "none")
        => \/ outcome.kind = "return"
           \/ (outcome.kind = "raise" /\ outcome.exc = "ValueError")

\* the per-digit table rows of a dec_to_base trace, in trace order
DecToBaseRows(steps) ==
    SelectSeq(steps, LAMBDA st :
        st.kind = "{step_num:4} | {working_n:7} | {base:15} | {remainder:9} | {digit}")

\* the per-digit table rows of a base_to_dec trace, in trace order
BaseToDecRows(steps) ==
    SelectSeq(steps, LAMBDA st :
        st.kind = "{i:8} | {digit:5} | {digit_value:11} | {position_value:38}")

\* the digit characters of a numeral, least significant first
RefDigitsLsbFirst(s) == [k \in 1..Len(RefBody(s)) |-> RefBody(s)[Len(RefBody(s)) + 1 - k]]

\* a dec_to_base trace has one row per digit of the returned numeral, least
\* significant digit first and numbered from 1, and ends with the summary
\* line naming the argument and the returned numeral
DecToBaseTraceFaithful(c, o) ==
    LET rows == DecToBaseRows(o.steps)
        lsb == RefDigitsLsbFirst(o.numeral)
        last == o.steps[Len(o.steps)]
    IN  /\ Len(rows) = Len(lsb)
        /\ \A k \in 1..Len(rows) : rows[k].ints[1] = k /\ rows[k].strs = <<<<lsb[k]>>>>
        /\ last.kind = "Final result: {original_n} in decimal = {final_result} in base {base}"
        /\ last.ints = <<c.n, c.base>>
        /\ last.strs = <<o.numeral>>

\* a base_to_dec trace has one row per digit of the argument, least
\* significant digit first and numbered from position 0, and ends with the
\* summary line naming the argument and the returned value
BaseToDecTraceFaithful(c, o) ==
    LET rows == BaseToDecRows(o.steps)
        lsb == RefDigitsLsbFirst(c.s)
        last == o.steps[Len(o.steps)]
    IN  /\ Len(rows) = Len(lsb)
        /\ \A k \in 1..Len(rows) :
               /\ rows[k].ints[1] = k - 1
               /\ \E d \in 1..16 :
                      /\ lsb[k] \in {RefDigitChars[d], RefLowerChars[d]}
                      /\ rows[k].strs = <<<<RefDigitChars[d]>>>>
                      /\ rows[k].ints[2] = d - 1
        /\ last.kind = "Final result: {original_str} in base {base} = {decimal_value} in decimal"
        /\ last.ints = <<c.base, o.value>>
        /\ last.strs = <<c.s>>

\* C11 as stated: whenever dec_to_base or base_to_dec is called with
\* show_steps=True and a base in 2..16 and returns, the trace holds exactly one per-digit row per
\* digit of the numeral, least significant first, and its final summary line
\* states the returned value; n = 0 included.
C11_TraceFidelityAll ==
    (call.show_steps /\ ValidBase(call.base) /\ outcome.kind = "return")
        => /\ call.fn = "dec_to_base" => DecToBaseTraceFaithful(call, outcome)
           /\ call.fn = "base_to_dec" => BaseToDecTraceFaithful(call, outcome)

\* C11 amended: the same for every call of base_to_dec and every call of
\* dec_to_base with n # 0; dec_to_base(0, b, show_steps=True) returns "0"
\* with a trace of the single line "0 in decimal is 0 in base b", which has
\* no per-digit row and no "Final result" line.
C11_TraceFidelity ==
    (call.show_steps /\ ValidBase(call.base) /\ outcome.kind = "return")
        => /\ (call.fn = "dec_to_base" /\ call.n # 0)
                  => DecToBaseTraceFaithful(call, outcome)
           /\ (call.fn = "dec_to_base" /\ call.n = 0)
                  => /\ outcome.numeral = <<"0">>
                     /\ Len(outcome.steps) = 1
                     /\ outcome.steps[1].kind = "0 in decimal is 0 in base {base}"
                     /\ outcome.steps[1].ints = <<call.base>>
                     /\ DecToBaseRows(outcome.steps) = <<>>
           /\ call.fn = "base_to_dec" => BaseToDecTraceFaithful(call, outcome)

\* C11 witness: dec_to_base(-26, 16, show_steps=True) has returned "-1A" with
\* two rows, the row of digit A first.
C11_Witness ==
    /\ call.fn = "dec_to_base"
    /\ call.n = 0 - 26
    /\ call.base = 16
    /\ call.show_steps
    /\ outcome.kind = "return"
    /\ outcome.numeral = <<"-", "1", "A">>
    /\ Len(DecToBaseRows(outcome.steps)) = 2
    /\ DecToBaseRows(outcome.steps)[1].strs = <<<<"A">>>>

\* the digits of the fraction num/den in base b: multiply the remaining
\* fraction by b, take the integer part as the next digit, subtract it, and
\* stop after p digits or as soon as nothing remains
RECURSIVE RefFracDigits(_, _, _, _)
RefFracDigits(num, den, b, p) ==
    IF p = 0 THEN <<>>
    ELSE LET d == (num * b) \div den
             rest == num * b - d * den
         IN  <<RefDigitChars[d + 1]>> \o
             (IF rest = 0 THEN <<>> ELSE RefFracDigits(rest, den, b, p - 1))

\* the call is dec_to_base_float(x, b, p) with 0 < |x| < 1, b in 2..16, p >= 1
IsProperFractionCall(c) ==
    /\ c.fn = "dec_to_base_float"
    /\ c.x.cls = "finite"
    /\ c.x.num # 0
    /\ 0 - FracDen < c.x.num /\ c.x.num < FracDen
    /\ ValidBase(c.base)
    /\ c.precision >= 1

\* C12: for every x with 0 < |x| < 1 among the exactly representable values,
\* every base b in 2..16 and every precision p >= 1, the fractional digits of
\* dec_to_base_float(x, b, p) are those of repeated multiply-by-b extraction,
\* stopped after p digits or at a zero remainder; every digit is below b and
\* there are at most p of them.
C12_FractionDigits ==
    IsProperFractionCall(call)
        => LET mag == IF call.x.num < 0 THEN 0 - call.x.num ELSE call.x.num
               digits == RefFracDigits(mag, FracDen, call.base, call.precision)
               frac == SubSeq(RefBody(outcome.numeral), 3, Len(RefBody(outcome.numeral)))
           IN  /\ outcome.kind = "return"
               /\ outcome.numeral =
                      (IF call.x.num < 0 THEN <<"-">> ELSE <<>>) \o <<"0", ".">> \o digits
               /\ frac = digits
               /\ Len(frac) >= 1 /\ Len(frac) <= call.precision
               /\ \A k \in 1..Len(frac) : RefLegalDigit(frac[k], call.base)

\* C12 witness: dec_to_base_float(0.5, 2, 10) has returned "0.1": the exact
\* case stops after one digit although ten were allowed.
C12_Witness ==
    /\ call.fn = "dec_to_base_float"
    /\ call.x = Finite(FracDen \div 2)
    /\ call.base = 2
    /\ call.precision = DEFAULT_PRECISION
    /\ outcome.kind = "return"
    /\ outcome.numeral = <<"0", ".", "1">>

\* C13: for every x with |x| >= 1, every base b in 2..16 and precision p >= 1,
\* dec_to_base_float(x, b, p), traced or not, returns intPart "." fracDigits,
\* where intPart is the numeral of trunc(|x|) in base b without a sign,
\* fracDigits are the digits of the fractional remainder (the segment and its
\* dot left out when there are none), and one '-' is in front iff x < 0.
C13_IntegerPartComposed ==
    (/\ call.fn = "dec_to_base_float"
     /\ call.x.cls = "finite"
     /\ (call.x.num >= FracDen \/ call.x.num <= 0 - FracDen)
     /\ ValidBase(call.base)
     /\ call.precision >= 1)
        => LET mag == IF call.x.num < 0 THEN 0 - call.x.num ELSE call.x.num
               intPart == RefToBase(mag \div FracDen, call.base)
               rest == mag % FracDen
               digits == IF rest = 0 THEN <<>>
                         ELSE RefFracDigits(rest, FracDen, call.base, call.precision)
           IN  /\ outcome.kind = "return"
               /\ outcome.numeral =
                      (IF call.x.num < 0 THEN <<"-">> ELSE <<>>) \o intPart \o
                      (IF digits = <<>> THEN <<>> ELSE <<".">> \o digits)

\* s without the blanks at its two ends
RefTrim(s) ==
    LET solid == {i \in 1..Len(s) : s[i] \notin {" ", "\t", "\n", "\r"}}
    IN  IF solid = {} THEN <<>>
        ELSE SubSeq(s, CHOOSE i \in solid : \A j \in solid : i <= j,
                       CHOOSE i \in solid : \A j \in solid : i >= j)

\* t begins with "0" and the letter, in either case
RefHasPrefix(t, small, capital) ==
    Len(t) >= 2 /\ t[1] = "0" /\ t[2] \in {small, capital}

\* the classification of the statement: the prefixes first, then the
\* narrowest of 2, 8, 10, 16 the whole string is a numeral of, else 0
RefDetectBase(s) ==
    LET t == RefTrim(s)
        fitting == {b \in {2, 8, 10, 16} : RefValidNumeral(t, b)}
    IN  IF RefHasPrefix(t, "b", "B") THEN 2
        ELSE IF RefHasPrefix(t, "o", "O") THEN 8
        ELSE IF RefHasPrefix(t, "x", "X") THEN 16
        ELSE IF fitting = {} THEN 0
        ELSE CHOOSE b \in fitting : \A c \in fitting : b <= c

\* C14: detect_base(s) is, for every string s, the reference classification:
\* after trimming, a 0b / 0o / 0x prefix in either case gives 2 / 8 / 16
\* whatever follows; otherwise, with one optional leading '-', the first of
\* 2, 8, 10, 16 whose digits make up the whole non-empty body, and 0 if none.
C14_DetectBaseMatchesReference ==
    (call.fn = "detect_base")
        => /\ outcome.kind = "return"
           /\ outcome.value = RefDetectBase(call.s)

\* C14 witness: detect_base("0x1F") has returned 16 on the prefix alone
C14_Witness ==
    /\ call.fn = "detect_base"
    /\ call.s = <<"0", "x", "1", "F">>
    /\ outcome.kind = "return"
    /\ outcome.value = 16

\* C15: char_to_ascii(c) fails with the invalid-character-input error and
\* returns no code point whenever c is not exactly one character (empty, or
\* two or more), and for every single character returns its code point.
C15_SingleCharacterOrError ==
    (call.fn = "char_to_ascii")
        => IF Len(call.chars) = 1
           THEN /\ outcome.kind = "return"
                /\ outcome.value = call.chars[1]
           ELSE /\ outcome.kind = "raise"
                /\ outcome.exc = "ValueError"
                /\ outcome.msg = "Please enter a single character"
                /\ outcome.steps = <<>>

\* C15 witness: char_to_ascii("Ab") has failed with the single-character error
C15_Witness ==
    /\ call.fn = "char_to_ascii"
    /\ call.chars = <<65, 98>>
    /\ outcome.kind = "raise"
    /\ outcome.msg = "Please enter a single character"

\* C16: ascii_to_char(cp) fails with the out-of-range error exactly when cp
\* is outside [0, 0x10FFFF]; for every cp inside it returns the character
\* with that code point, and char_to_ascii gives cp back for it.
C16_CodePointRangeAndRoundTrip ==
    (call.fn = "ascii_to_char")
        => IF 0 <= call.n /\ call.n <= 1114111
           THEN /\ outcome.kind = "return"
                /\ outcome.chars = <<call.n>>
                /\ char_to_ascii(outcome.chars, call.show_steps).kind = "return"
                /\ char_to_ascii(outcome.chars, call.show_steps).value = call.n
           ELSE /\ outcome.kind = "raise"
                /\ outcome.exc = "ValueError"
                /\ outcome.msg = "Code point must be between 0 and 1114111"

\* C16 witness: ascii_to_char(0x1F600) has returned the one-character str of
\* that code point
C16_Witness ==
    /\ call.fn = "ascii_to_char"
    /\ call.n = 128512
    /\ outcome.kind = "return"
    /\ outcome.chars = <<128512>>

\* the traced source-to-decimal leg of a cross-base function on s
RefSourceLeg(fn, s) ==
    CASE FromBase(fn) = 2 -> bin_to_dec(s, TRUE)
      [] FromBase(fn) = 8 -> oct_to_dec(s, TRUE)
      [] FromBase(fn) = 16 -> hex_to_dec(s, TRUE)

\* the traced decimal-to-target leg of a cross-base function on v
RefTargetLeg(fn, v) ==
    CASE ToBase(fn) = 2 -> dec_to_bin(v, TRUE)
      [] ToBase(fn) = 8 -> dec_to_oct(v, TRUE)
      [] ToBase(fn) = 16 -> dec_to_hex(v, TRUE)

\* the line that opens the second section of a cross-base trace
SectionTitles ==
    {"Step 2: Convert decimal to binary", "Step 2: Convert decimal to octal",
     "Step 2: Convert decimal to hexadecimal"}

\* the summary lines of the six cross-base functions
SummaryLines ==
    {"Complete conversion: {bstr} (binary) = {oct_value} (octal)",
     "Complete conversion: {bstr} (binary) = {hex_value} (hexadecimal)",
     "Complete conversion: {ostr} (octal) = {bin_value} (binary)",
     "Complete conversion: {ostr} (octal) = {hex_value} (hexadecimal)",
     "Complete conversion: {hstr} (hexadecimal) = {bin_value} (binary)",
     "Complete conversion: {hstr} (hexadecimal) = {oct_value} (octal)"}

\* C17: a cross-base function called with show_steps=True returns a trace
\* ordered as: a header naming the input, the complete source-to-decimal
\* trace, a section boundary, the complete decimal-to-target trace, and last
\* the 'Complete conversion' line; the second leg's records all come after
\* the first leg's, and the summary names the returned numeral.
C17_CrossTraceOrdered ==
    (call.fn \in CrossFunctions /\ call.show_steps /\ outcome.kind = "return")
        => LET steps == outcome.steps
               leg1 == RefSourceLeg(call.fn, call.s).steps
               leg2 == RefTargetLeg(call.fn, RefSourceLeg(call.fn, call.s).value).steps
               a == 3
               b == a + Len(leg1) + 3
           IN  /\ Len(steps) = b + Len(leg2) + 3
               /\ steps[1].strs = <<call.s>>
               /\ leg1 # <<>> /\ leg2 # <<>>
               /\ SubSeq(steps, a + 1, a + Len(leg1)) = leg1
               /\ steps[a + Len(leg1) + 1].kind = ""
               /\ steps[a + Len(leg1) + 2].kind \in SectionTitles
               /\ SubSeq(steps, b + 1, b + Len(leg2)) = leg2
               /\ steps[Len(steps)].kind \in SummaryLines
               /\ steps[Len(steps)].strs = <<call.s, outcome.numeral>>
               /\ \A k \in 1..(Len(steps) - 1) : steps[k].kind \notin SummaryLines

\* C17 witness: bin_to_oct("101", show_steps=True) has returned "5" with a
\* trace whose last line names "101" and "5"
C17_Witness ==
    /\ call.fn = "bin_to_oct"
    /\ call.show_steps
    /\ call.s = <<"1", "0", "1">>
    /\ outcome.kind = "return"
    /\ outcome.numeral = <<"5">>
    /\ outcome.steps[Len(outcome.steps)].strs = <<<<"1", "0", "1">>, <<"5">>>>

\* the functions that turn an int into a numeral, and the base each one
\* writes in
ToNumeralFunctions == {"dec_to_base", "dec_to_bin", "dec_to_oct", "dec_to_hex"}

RefTargetBase(c) ==
    CASE c.fn = "dec_to_base" -> c.base
      [] c.fn = "dec_to_bin" -> 2
      [] c.fn = "dec_to_oct" -> 8
      [] c.fn = "dec_to_hex" -> 16

\* C18: every numeral returned by dec_to_base(n, b) with b in 2..16 and by
\* dec_to_bin, dec_to_oct, dec_to_hex is a valid Numeral of its base: a
\* non-empty body made only of the first b characters of 0123456789ABCDEF,
\* after at most one '-', which is there iff n < 0.
C18_ReturnedNumeralValid ==
    (/\ call.fn \in ToNumeralFunctions
     /\ ValidBase(RefTargetBase(call))
     /\ outcome.kind = "return")
        => LET s == outcome.numeral
               body == RefBody(s)
           IN  /\ body # <<>>
               /\ \A k \in 1..Len(body) :
                      \E d \in 1..RefTargetBase(call) : body[k] = RefDigitChars[d]
               /\ RefHasSign(s) <=> call.n < 0

\* C18 witness: dec_to_hex(-255, show_steps=True) has returned "-FF"
C18_Witness ==
    /\ call.fn = "dec_to_hex"
    /\ call.n = 0 - 255
    /\ outcome.kind = "return"
    /\ outcome.numeral = <<"-", "F", "F">>

\* a stepwise call ends exactly as the function computed at once does (a
\* raising dec_to_base_float call aside, whose frame does not tell an
\* infinity or a NaN from a finite argument)
LoopAgreesWithFunction ==
    (frame.pc \in {"returned", "raised"})
        => LET whole == CASE frame.fn = "dec_to_base" ->
                                 dec_to_base(frame.n, frame.base, frame.show_steps)
                          [] frame.fn = "dec_to_bin" -> dec_to_bin(frame.n, frame.show_steps)
                          [] frame.fn = "dec_to_oct" -> dec_to_oct(frame.n, frame.show_steps)
                          [] frame.fn = "dec_to_hex" -> dec_to_hex(frame.n, frame.show_steps)
                          [] frame.fn = "base_to_dec" ->
                                 base_to_dec(frame.s, frame.base, frame.show_steps)
                          [] frame.fn = "dec_to_base_float" ->
                                 dec_to_base_float(Finite(frame.n), frame.base,
                                                   frame.precision, frame.show_steps)
           IN  IF frame.pc = "raised"
               THEN frame.fn = "dec_to_base_float" \/ whole.kind = "raise"
               ELSE /\ whole.kind = "return"
                    /\ IF frame.fn = "base_to_dec" THEN whole.value = frame.decimal_value
                       ELSE whole.numeral = frame.result

\* every call that has started comes to its end
LoopTerminates == (frame.pc # "idle") ~> (frame.pc \in {"returned", "raised"})

\* the value the digit loop of a call starts from
RefLoopStart(f) ==
    IF f.fn = "dec_to_bin" /\ f.n < 0
    THEN 2 ^ (RefBitLength(0 - f.n) + 1) + f.n
    ELSE IF f.n < 0 THEN 0 - f.n ELSE f.n

\* C19: every core conversion call terminates, and its loop runs as stated:
\* the while loops of dec_to_base, dec_to_bin, dec_to_oct and dec_to_hex keep
\* a positive working value that strictly decreases to 0, one iteration per
\* output digit; base_to_dec iterates once per input digit; the fraction
\* loop of dec_to_base_float runs at most precision times.
C19_LoopsRunOncePerDigit ==
    /\ (frame.fn \in ToNumeralFunctions /\ frame.pc = "while")
           => /\ frame.working_n >= 0
              /\ frame.iterations + Len(RefDigits(frame.working_n, frame.base))
                     = Len(RefDigits(RefLoopStart(frame), frame.base))
    /\ (frame.fn \in ToNumeralFunctions /\ frame.n # 0 /\ ValidBase(frame.base)
            /\ frame.pc \in {"returned", "raised"})
           => /\ frame.working_n = 0
              /\ frame.iterations = Len(RefDigits(RefLoopStart(frame), frame.base))
    /\ (frame.fn = "base_to_dec" /\ frame.pc = "returned")
           => frame.iterations = Len(RefBody(frame.s))
    /\ (frame.fn = "dec_to_base_float" /\ frame.precision >= 0)
           => frame.iterations <= frame.precision

\* the conversion functions, as opposed to toggle_color_scheme
ConversionFunctions ==
    {"dec_to_base", "base_to_dec", "dec_to_base_float", "dec_to_bin", "dec_to_oct",
     "dec_to_hex", "bin_to_dec", "oct_to_dec", "hex_to_dec", "char_to_ascii",
     "ascii_to_char", "detect_base"} \cup CrossFunctions

\* what the conversion named in c gives for the arguments in c, whatever
\* came before and whatever the colors are
RefOutcome(c) ==
    CASE c.fn = "dec_to_base" -> dec_to_base(c.n, c.base, c.show_steps)
      [] c.fn = "base_to_dec" -> base_to_dec(c.s, c.base, c.show_steps)
      [] c.fn = "dec_to_base_float" -> dec_to_base_float(c.x, c.base, c.precision, c.show_steps)
      [] c.fn = "dec_to_bin" -> dec_to_bin(c.n, c.show_steps)
      [] c.fn = "dec_to_oct" -> dec_to_oct(c.n, c.show_steps)
      [] c.fn = "dec_to_hex" -> dec_to_hex(c.n, c.show_steps)
      [] c.fn = "bin_to_dec" -> bin_to_dec(c.s, c.show_steps)
      [] c.fn = "oct_to_dec" -> oct_to_dec(c.s, c.show_steps)
      [] c.fn = "hex_to_dec" -> hex_to_dec(c.s, c.show_steps)
      [] c.fn = "bin_to_oct" -> bin_to_oct(c.s, c.show_steps)
      [] c.fn = "bin_to_hex" -> bin_to_hex(c.s, c.show_steps)
      [] c.fn = "oct_to_bin" -> oct_to_bin(c.s, c.show_steps)
      [] c.fn = "oct_to_hex" -> oct_to_hex(c.s, c.show_steps)
      [] c.fn = "hex_to_bin" -> hex_to_bin(c.s, c.show_steps)
      [] c.fn = "hex_to_oct" -> hex_to_oct(c.s, c.show_steps)
      [] c.fn = "char_to_ascii" -> char_to_ascii(c.chars, c.show_steps)
      [] c.fn = "ascii_to_char" -> ascii_to_char(c.n, c.show_steps)
      [] c.fn = "detect_base" -> ReturnInt(detect_base(c.s), <<>>, FALSE)

\* C20: the conversion core has no shared mutable state.  Through any
\* sequence of conversion calls and toggle_color_scheme calls, CURRENT_SCHEME
\* and colors change only in a toggle_color_scheme call, a conversion call
\* changes no module-level variable, and the result of a conversion is the
\* same for the same arguments whatever was called before and whichever
\* color scheme is active.
C20_NoSharedMutableState ==
    /\ [](call.fn \in ConversionFunctions => outcome = RefOutcome(call))
    /\ [](colors = Colors(CURRENT_SCHEME))
    /\ [][(call'.fn \in ConversionFunctions \/ call'.fn = "none")
              => globals' = globals]_vars
    /\ [][globals' # globals
              => /\ call'.fn = "toggle_color_scheme"
                 /\ CURRENT_SCHEME' = (IF CURRENT_SCHEME = "dark" THEN "light" ELSE "dark")]_vars

\* C20 witness: dec_to_hex(255, show_steps=True) has returned "FF" while the
\* light scheme, set by an earlier toggle_color_scheme, is active
C20_Witness ==
    /\ CURRENT_SCHEME = "light"
    /\ colors.scheme = "light"
    /\ call.fn = "dec_to_hex"
    /\ call.n = 255
    /\ outcome.kind = "return"
    /\ outcome.numeral = <<"F", "F">>

\* the converters of the claim: the ones that take show_steps, the character
\* functions aside
ShowStepsFunctions ==
    {"dec_to_base", "base_to_dec", "dec_to_base_float", "dec_to_bin", "dec_to_oct",
     "dec_to_hex", "bin_to_dec", "oct_to_dec", "hex_to_dec"} \cup CrossFunctions

\* the same call with the other value of show_steps
OtherForm(c) == [c EXCEPT !.show_steps = ~c.show_steps]

\* C22: requesting a trace does not change the outcome.  Whenever one of the
\* fifteen converters with a show_steps parameter has been called, the call
\* with the same arguments and the other value of show_steps ends the same
\* way: both return, with the same value (the first component of the pair
\* for the traced form), or both raise.
C22_TraceDoesNotChangeOutcome ==
    call.fn \in ShowStepsFunctions =>
        LET other == RefOutcome(OtherForm(call))
        IN  /\ outcome.kind = other.kind
            /\ outcome.kind = "return"
                   => /\ outcome.numeral = other.numeral
                      /\ outcome.value = other.value

\* the numeral after its sign, for a numeral that has one
RefDigitBody(numeral) == Tail(numeral)

\* C23: for every negative n, the digit body dec_to_bin(n, show_steps=True)
\* emits after the '-' has exactly bitlength(|n|)+1 binary digits, begins
\* with '1', and read as a two's-complement integer of that width denotes n:
\* its unsigned value minus 2^(bitlength(|n|)+1) is n.
C23_BodyIsTwosComplementOfWidth ==
    (call.fn = "dec_to_bin" /\ call.n < 0 /\ call.show_steps)
        => /\ outcome.kind = "return"
           /\ Head(outcome.numeral) = "-"
           /\ LET body == RefDigitBody(outcome.numeral)
                  width == RefBitLength(0 - call.n) + 1
              IN  /\ Len(body) = width
                  /\ \A i \in 1..Len(body) : body[i] \in {"0", "1"}
                  /\ body[1] = "1"
                  /\ RefHorner(body, 2, Len(body)) - 2 ^ width = call.n

\* C23 witness: dec_to_bin(-4, show_steps=True) has returned "-1100": four
\* digits for bitlength(4) = 3, and 12 - 16 = -4.
C23_Witness ==
    /\ call.fn = "dec_to_bin"
    /\ call.n = 0 - 4
    /\ call.show_steps
    /\ outcome.kind = "return"
    /\ outcome.numeral = <<"-", "1", "1", "0", "0">>

\* c in uppercase, for the digit characters
RefUpperChar(c) ==
    IF \E d \in 1..16 : c = RefLowerChars[d]
    THEN RefDigitChars[CHOOSE d \in 1..16 : c = RefLowerChars[d]]
    ELSE c

RECURSIVE RefDropLeadingZeros(_)
RefDropLeadingZeros(body) ==
    IF body # <<>> /\ Head(body) = "0" THEN RefDropLeadingZeros(Tail(body)) ELSE body

\* s in uppercase with the leading zeros of its body removed; "0" when
\* nothing is left of the body, whatever the sign
RefCanonicalSpelling(s) ==
    LET body == RefDropLeadingZeros([i \in 1..Len(RefBody(s)) |-> RefUpperChar(RefBody(s)[i])])
    IN  IF body = <<>> THEN <<"0">>
        ELSE (IF RefHasSign(s) THEN <<"-">> ELSE <<>>) \o body

\* C24: canonicalisation.  For every base b in 2..16 and every valid base-b
\* numeral s, dec_to_base(base_to_dec(s, b), b, show_steps=True) returns s in
\* uppercase with leading zeros removed; every spelling of zero gives "0", so
\* the result is never "-0" and has a leading zero digit only when it is "0".
C24_Canonicalisation ==
    (call.fn = "base_to_dec" /\ ValidBase(call.base) /\ RefValidNumeral(call.s, call.base))
        => /\ outcome.kind = "return"
           /\ LET back == dec_to_base(outcome.value, call.base, TRUE)
              IN  /\ back.kind = "return"
                  /\ back.numeral = RefCanonicalSpelling(call.s)
                  /\ back.numeral # <<"-", "0">>
                  /\ (Head(RefBody(back.numeral)) = "0") => back.numeral = <<"0">>

\* C24 witness: base_to_dec("-0f", 16) has returned -15, which dec_to_base
\* writes "-F"
C24_Witness ==
    /\ call.fn = "base_to_dec"
    /\ call.s = <<"-", "0", "f">>
    /\ call.base = 16
    /\ outcome.kind = "return"
    /\ outcome.value = 0 - 15
    /\ dec_to_base(outcome.value, call.base, TRUE).numeral = <<"-", "F">>

\* the base a fixed-base parser is for
RefParserBase(fn) ==
    CASE fn = "bin_to_dec" -> 2 [] fn = "oct_to_dec" -> 8 [] fn = "hex_to_dec" -> 16

\* the call ended with a ValueError: the invalid-numeral error of the parsers
IsValueError(o) == o.kind = "raise" /\ o.exc = "ValueError"

\* C25: the fixed-base parsers agree with the generic parser on every string
\* s: bin_to_dec(s), oct_to_dec(s) and hex_to_dec(s) return the integer that
\* base_to_dec(s, 2), base_to_dec(s, 8) and base_to_dec(s, 16) return, or
\* both calls of the pair fail with the invalid-numeral ValueError.
C25_FixedParsersMatchGeneric ==
    call.fn \in {"bin_to_dec", "oct_to_dec", "hex_to_dec"} =>
        LET generic == base_to_dec(call.s, RefParserBase(call.fn), call.show_steps)
        IN  \/ /\ outcome.kind = "return"
               /\ generic.kind = "return"
               /\ outcome.value = generic.value
            \/ /\ IsValueError(outcome)
               /\ IsInvalidNumeralError(generic, RefParserBase(call.fn))

\* C25 witness: hex_to_dec("-ff") has returned -255, as base_to_dec("-ff", 16)
\* does
C25_Witness ==
    /\ call.fn = "hex_to_dec"
    /\ call.s = <<"-", "f", "f">>
    /\ outcome.kind = "return"
    /\ outcome.value = 0 - 255
    /\ base_to_dec(call.s, 16, call.show_steps).value = 0 - 255

\* the core functions that take a base from the menu
BaseTakingFunctions == {"dec_to_base", "base_to_dec", "dec_to_base_float"}

\* C21: every base the menu passes to dec_to_base, base_to_dec or
\* dec_to_base_float (options 13, 14 and 15, in the traced branch and through
\* the CONVERSIONS table) lies in 2..16: a base typed outside that range is
\* asked again and never reaches a core function.
C21_MenuPassesValidBase ==
    (menu.pc # "off" /\ call.fn \in BaseTakingFunctions) => ValidBase(call.base)

\* choice is a decimal numeral of one of the options 1..19
RefIsMenuEntry(choice) ==
    /\ choice # <<>>
    /\ \A i \in 1..Len(choice) : \E d \in 1..10 : choice[i] = RefDigitChars[d]
    /\ RefHorner(choice, 10, Len(choice)) \in 1..19

\* C26: in the menu loop no exception raised by a conversion escapes menu().
\* When the traced conversion of the selected option raises, the inner
\* handler runs and the untraced entry of CONVERSIONS is invoked for the same
\* option, reading its inputs again; if that call raises too, an outer
\* handler catches the exception and the menu is shown again without the
\* question about another conversion, which is asked only after a displayed
\* result.  The program ends only through option 20, an answer other than
\* 'y' to that question, or KeyboardInterrupt, and no conversion is invoked
\* for a choice that is not one of the options 1..19.
C26_MenuLoopContainsExceptions ==
    /\ [](menu.exit \in {"", "SystemExit", "KeyboardInterrupt"})
    /\ [](menu.exit = "SystemExit"
              => \/ menu.exit_at = "choice" /\ menu.choice = <<"2", "0">>
                 \/ menu.exit_at = "another")
    /\ []((menu.pc \in {"read", "convert", "display", "except"} \/ call.fn # "none")
              => /\ RefIsMenuEntry(menu.choice)
                 /\ menu.option_num = RefHorner(menu.choice, 10, Len(menu.choice)))
    /\ [][(menu.pc = "convert" /\ ~menu.simplified /\ outcome'.kind = "raise")
              => menu'.pc = "except"]_vars
    /\ [][menu.pc = "except"
              => /\ menu'.simplified
                 /\ menu'.option_num = menu.option_num
                 /\ menu'.reads = 0
                 /\ menu'.pc = (IF menu.option_num = 19 THEN "convert" ELSE "read")]_vars
    /\ [][(menu.pc = "convert" /\ menu.simplified)
              => /\ call'.fn = CONVERSIONS[menu.option_num]
                 /\ ~call'.show_steps
                 /\ outcome'.kind = "raise" => menu'.pc = "outer"]_vars
    /\ [][menu.pc = "outer" => menu'.pc = "choice"]_vars
    /\ [][(menu'.pc = "another" /\ menu.pc # "another")
              => menu.pc = "display" /\ outcome.kind = "return"]_vars
    /\ [][(menu'.pc = "exited" /\ menu.pc # "exited")
              => \/ menu.pc = "choice" /\ menu'.exit = "SystemExit"
                 \/ menu.pc = "another" /\ menu'.exit = "SystemExit"
                 \/ menu'.exit = "KeyboardInterrupt"]_vars

\* C26 witness: option 13, whose traced call had raised, has been run again
\* through CONVERSIONS; dec_to_base(n, base) without show_steps has raised
\* UnboundLocalError and the outer "except Exception" has caught it
C26_Witness ==
    /\ menu.pc = "outer"
    /\ menu.option_num = 13
    /\ menu.simplified
    /\ menu.handler = "Exception"
    /\ call.fn = "dec_to_base"
    /\ ~call.show_steps
    /\ outcome.kind = "raise"
    /\ outcome.exc = "UnboundLocalError"
====
